---- MODULE Spec2Model ----
(***************************************************************************)
(* Save Steward: the branch-per-save versioning engine (one master Git    *)
(* repository, one branch per save, branch metadata in the git_branches   *)
(* table) and the hash-based change detection that feeds it.              *)
(*                                                                         *)
(* The module holds several specifications over one set of variables:     *)
(*   SpecName     - the branch name built by create_save_checkpoint       *)
(*   Spec         - checkpoints, switches and restores run by concurrent  *)
(*                  callers on the master repository                      *)
(*   SpecBranches - the commands that write the git_branches table        *)
(*   SpecDetect   - detect_changes over the hash cache                    *)
(*   SpecDebounce - the debounce window of the change events              *)
(*   SpecHash     - the hash strategies of the performance optimizer      *)
(*   SpecHistory  - get_git_history after checkpoints and switches        *)
(*   SpecOpen     - initialize_master_repo called again and again         *)
(*   SpecRecovery - detection with recovery and the change-event handler  *)
(*   SpecDeadline - checkpoint and restore under a deadline               *)
(*   SpecFence    - change events of games removed from monitoring        *)
(*   SpecRate     - the rate limit of the backup triggers                 *)
(*   SpecWatch    - FileSystemWatcher::watch_directory on each platform   *)
(*   SpecRewatch  - the Linux watcher when its directory is recreated     *)
(*   SpecSuspend  - handle_save_change when the repository is corrupted   *)
(*   SpecAnalysis - detect_changes with analyze_file_changes              *)
(*   SpecLock     - the commands around the database mutex                *)
(*   SpecLockFair - the same under fair scheduling of the callers         *)
(*   SpecDialog   - the Create Checkpoint dialog of the GameCard           *)
(*   SpecManager  - the GitSaveManager component and its pending calls     *)
(* Each specification leaves the variables of the others at their initial  *)
(* values.                                                                 *)
(***************************************************************************)
EXTENDS Integers, Sequences, FiniteSets, TLC

VARIABLES
    nmGame,        \* branch naming: the game name read from the games table
    nmSave,        \* branch naming: the save name sent by the UI
    nmResult,      \* branch naming: the branch name built, <<>> before the
                   \* call
    nmDone,        \* branch naming: TRUE once the name was built
    refs,          \* repository: branch name -> commit at its tip
    commits,       \* repository: the commits, in creation order (index = hash)
    head,          \* repository: the branch HEAD points to
    worktree,      \* repository: working-tree save files, per game
    git_branches,  \* database: rows of the git_branches table
    pc,            \* per caller: the step its command is at
    op,            \* per caller: the command in progress and, at "done", its
                   \* outcome
    file,          \* change detection: the save file (bytes, modification
                   \* time)
    cache,         \* change detection: the CachedHash of the file, or NoEntry
    previous_hash, \* change detection: the hash recorded for the file, or
                   \* NoHash
    clock,         \* change detection: the system time
    run,           \* change detection: what the latest detect_changes run saw,
                   \* and whether the bytes were written since
    now,           \* debounce: the time of the injected clock
    pending,       \* debounce: per path, the events of the open window
    delivered,     \* debounce: the events handed to policy, in order
    next_event,    \* debounce: the id of the next raw event
    hashed_file,   \* hashing: the bytes of the file being hashed
    strategy,      \* hashing: the strategy optimize_hash_calculation chose
    fingerprints,  \* hashing: per strategy, the hash it returned, or NoHash
    history,       \* history: the GitHistoryItem the UI holds, or NoHistory
    repo_initialized, \* repository: whether the master repository exists
    attributes,    \* repository: the lines of .gitattributes
    opened,        \* repository: the calls of initialize_master_repo so far
                   \* and the number of commits the latest call found
    detection,     \* recovery: the state of detect_changes_with_recovery
    retry_count,   \* recovery: its retry_count
    attempts,      \* recovery: the calls of attempt_change_detection so far
    slept,         \* recovery: the milliseconds slept between attempts
    last_error,    \* recovery: the error of the latest attempt, or "none"
    handled,       \* recovery: what handle_save_change did with the event
    elapsed,       \* deadline: the time the operation has been running
    snapshot,      \* deadline: the repository as the operation found it
    monitored,     \* monitoring: the games whose saves are watched
    events,        \* monitoring: per game, the state of its change event
    in_flight_at_removal, \* monitoring: the games removed while their
                   \* checkpoint was running
    trigger_clock, \* rate limiting: the time of the orchestrator
    last_trigger,  \* rate limiting: per game, the time of its latest trigger,
                   \* or NoTrigger
    triggers,      \* rate limiting: the checkpoint triggers issued, in order
    rate_limited,  \* rate limiting: the changes dropped by the rate limit
    backend,       \* watcher: the platform backend of watch_directory, or
                   \* "none"
    fs_applied,    \* watcher: the number of changes the filesystem applied
    kernel_queue,  \* watcher: the events the kernel holds for the watch
    buffer,        \* watcher: the events read_events returned, not yet
                   \* handled
    rx,            \* watcher: the events in the channel of the event stream
    handled_events, \* watcher: the events handed to the change detector, in
                    \* order
    dir_present,   \* watched directory: whether the directory exists
    watch_removed, \* watched directory: whether the kernel dropped the watch
    changes_after_recreate, \* watched directory: the changes applied under
                            \* the recreated directory
    fatal_raised,  \* escalation: the games a fatal error was raised for and
                   \* not re-enabled since
    changes_handled, \* escalation: the change events handled so far
    last_change,   \* escalation: what handle_save_change did with the latest
                   \* event
    save_file,     \* change analysis: the save file of the watched directory
    previous_state, \* change analysis: the file state the detector recorded,
                    \* or NoState
    changes,       \* change analysis: the Vec<ChangeEvent> of the latest
                   \* detect_changes
    analyses,      \* change analysis: the detect_changes calls so far
    fs_time,       \* change analysis: the time of the filesystem
    db_holder,     \* database mutex: the caller holding the guard, or "none"
    db_waiters,    \* database mutex: the callers waiting in lock().await,
                   \* first come first
    lk_pc,         \* database mutex: per caller, the step its command is at
    lk_op,         \* database mutex: per caller, the command and its outcome
    showCheckpointDialog, \* checkpoint dialog: whether the dialog is open
    checkpointName, \* checkpoint dialog: the Save Name field
    checkpointDescription, \* checkpoint dialog: the Description field
    isCreatingCheckpoint, \* checkpoint dialog: TRUE while
                   \* create_save_checkpoint is pending
    checkpointError, \* checkpoint dialog: the error shown, or "none"
    checkpoint_calls, \* checkpoint dialog: the create_save_checkpoint calls
                   \* sent, in order
    game_prop,     \* save manager: the id of the game prop
    git_games,     \* save manager: the games Git versioning is enabled for
                   \* (backend)
    gitEnabled,    \* save manager: the gitEnabled state
    gitHistory,    \* save manager: the gitHistory state, or NoGitHistory
    isLoading,     \* save manager: the isLoading state
    error_state,   \* save manager: the error state, or "none"
    requests,      \* save manager: the invoke() calls that have not settled
    next_request,  \* save manager: the id of the next invoke() call
    confirm_answers \* save manager: the answers given to confirm(), in order

nameVars == <<nmGame, nmSave, nmResult, nmDone>>
repoVars == <<refs, commits, head, worktree, git_branches, pc, op>>
detectVars == <<file, cache, previous_hash, clock, run>>
debounceVars == <<now, pending, delivered, next_event>>
hashVars == <<hashed_file, strategy, fingerprints>>
historyVars == <<history>>
openVars == <<repo_initialized, attributes, opened>>
recoveryVars ==
    <<detection, retry_count, attempts, slept, last_error, handled>>
deadlineVars == <<elapsed, snapshot>>
fenceVars == <<monitored, events, in_flight_at_removal>>
rateVars == <<trigger_clock, last_trigger, triggers, rate_limited>>
watchVars == <<backend, fs_applied, kernel_queue, buffer, rx, handled_events>>
rewatchVars == <<dir_present, watch_removed, changes_after_recreate>>
suspendVars == <<fatal_raised, changes_handled, last_change>>
analysisVars == <<save_file, previous_state, changes, analyses, fs_time>>
lockVars == <<db_holder, db_waiters, lk_pc, lk_op>>
dialogVars ==
    <<showCheckpointDialog, checkpointName, checkpointDescription,
      isCreatingCheckpoint, checkpointError, checkpoint_calls>>
managerVars ==
    <<game_prop, git_games, gitEnabled, gitHistory, isLoading, error_state,
      requests, next_request, confirm_answers>>
notRepoOpenVars ==
    <<nameVars, detectVars, debounceVars, hashVars, historyVars, recoveryVars,
      deadlineVars, fenceVars, rateVars, watchVars, rewatchVars, suspendVars,
      analysisVars, lockVars, dialogVars, managerVars>>
notNameVars ==
    <<repoVars, detectVars, debounceVars, hashVars, historyVars, openVars,
      recoveryVars, deadlineVars, fenceVars, rateVars, watchVars, rewatchVars,
      suspendVars, analysisVars, lockVars, dialogVars, managerVars>>
notRepoVars ==
    <<nameVars, detectVars, debounceVars, hashVars, historyVars, openVars,
      recoveryVars, deadlineVars, fenceVars, rateVars, watchVars, rewatchVars,
      suspendVars, analysisVars, lockVars, dialogVars, managerVars>>
notDetectVars ==
    <<nameVars, repoVars, debounceVars, hashVars, historyVars, openVars,
      recoveryVars, deadlineVars, fenceVars, rateVars, watchVars, rewatchVars,
      suspendVars, analysisVars, lockVars, dialogVars, managerVars>>
notDebounceVars ==
    <<nameVars, repoVars, detectVars, hashVars, historyVars, openVars,
      recoveryVars, deadlineVars, fenceVars, rateVars, watchVars, rewatchVars,
      suspendVars, analysisVars, lockVars, dialogVars, managerVars>>
notHashVars ==
    <<nameVars, repoVars, detectVars, debounceVars, historyVars, openVars,
      recoveryVars, deadlineVars, fenceVars, rateVars, watchVars, rewatchVars,
      suspendVars, analysisVars, lockVars, dialogVars, managerVars>>
notHistoryVars ==
    <<nameVars, detectVars, debounceVars, hashVars, openVars, recoveryVars,
      deadlineVars, fenceVars, rateVars, watchVars, rewatchVars, suspendVars,
      analysisVars, lockVars, dialogVars, managerVars>>
notRepoDeadlineVars ==
    <<nameVars, detectVars, debounceVars, hashVars, historyVars, openVars,
      recoveryVars, fenceVars, rateVars, watchVars, rewatchVars, suspendVars,
      analysisVars, lockVars, dialogVars, managerVars>>
notFenceVars ==
    <<nameVars, repoVars, detectVars, debounceVars, hashVars, historyVars,
      openVars, recoveryVars, deadlineVars, rateVars, watchVars, rewatchVars,
      suspendVars, analysisVars, lockVars, dialogVars, managerVars>>
notRecoveryVars ==
    <<nameVars, repoVars, detectVars, debounceVars, hashVars, historyVars,
      openVars, deadlineVars, fenceVars, rateVars, watchVars, rewatchVars,
      suspendVars, analysisVars, lockVars, dialogVars, managerVars>>
notRateVars ==
    <<nameVars, repoVars, detectVars, debounceVars, hashVars, historyVars,
      openVars, recoveryVars, deadlineVars, fenceVars, watchVars, rewatchVars,
      suspendVars, analysisVars, lockVars, dialogVars, managerVars>>
notWatchVars ==
    <<nameVars, repoVars, detectVars, debounceVars, hashVars, historyVars,
      openVars, recoveryVars, deadlineVars, fenceVars, rateVars, rewatchVars,
      suspendVars, analysisVars, lockVars, dialogVars, managerVars>>
notRewatchVars ==
    <<nameVars, repoVars, detectVars, debounceVars, hashVars, historyVars,
      openVars, recoveryVars, deadlineVars, fenceVars, rateVars, watchVars,
      suspendVars, analysisVars, lockVars, dialogVars, managerVars>>
notWatchRewatchVars ==
    <<nameVars, repoVars, detectVars, debounceVars, hashVars, historyVars,
      openVars, recoveryVars, deadlineVars, fenceVars, rateVars, suspendVars,
      analysisVars, lockVars, dialogVars, managerVars>>
notSuspendVars ==
    <<nameVars, repoVars, detectVars, debounceVars, hashVars, historyVars,
      openVars, recoveryVars, deadlineVars, fenceVars, rateVars, watchVars,
      rewatchVars, analysisVars, lockVars, dialogVars, managerVars>>
notAnalysisVars ==
    <<nameVars, repoVars, detectVars, debounceVars, hashVars, historyVars,
      openVars, recoveryVars, deadlineVars, fenceVars, rateVars, watchVars,
      rewatchVars, suspendVars, lockVars, dialogVars, managerVars>>
notLockVars ==
    <<nameVars, repoVars, detectVars, debounceVars, hashVars, historyVars,
      openVars, recoveryVars, deadlineVars, fenceVars, rateVars, watchVars,
      rewatchVars, suspendVars, analysisVars, dialogVars, managerVars>>
notDialogVars ==
    <<nameVars, repoVars, detectVars, debounceVars, hashVars, historyVars,
      openVars, recoveryVars, deadlineVars, fenceVars, rateVars, watchVars,
      rewatchVars, suspendVars, analysisVars, lockVars, managerVars>>
notManagerVars ==
    <<nameVars, repoVars, detectVars, debounceVars, hashVars, historyVars,
      openVars, recoveryVars, deadlineVars, fenceVars, rateVars, watchVars,
      rewatchVars, suspendVars, analysisVars, lockVars, dialogVars>>
vars == <<nmGame, nmSave, nmResult, nmDone,
          refs, commits, head, worktree, git_branches, pc, op,
          file, cache, previous_hash, clock, run,
          now, pending, delivered, next_event,
          hashed_file, strategy, fingerprints, history,
          repo_initialized, attributes, opened,
          detection, retry_count, attempts, slept, last_error, handled,
          elapsed, snapshot, monitored, events, in_flight_at_removal,
          trigger_clock, last_trigger, triggers, rate_limited,
          backend, fs_applied, kernel_queue, buffer, rx, handled_events,
          dir_present, watch_removed, changes_after_recreate,
          fatal_raised, changes_handled, last_change,
          save_file, previous_state, changes, analyses, fs_time,
          db_holder, db_waiters, lk_pc, lk_op,
          showCheckpointDialog, checkpointName, checkpointDescription,
          isCreatingCheckpoint, checkpointError, checkpoint_calls,
          game_prop, git_games, gitEnabled, gitHistory, isLoading,
          error_state, requests, next_request, confirm_answers>>

(***************************************************************************)
(* Characters and names. A name is a sequence of one-character strings.    *)
(***************************************************************************)
Letters ==
    {"a","b","c","d","e","f","g","h","i","j","k","l","m",
     "n","o","p","q","r","s","t","u","v","w","x","y","z",
     "A","B","C","D","E","F","G","H","I","J","K","L","M",
     "N","O","P","Q","R","S","T","U","V","W","X","Y","Z"}

Digits == {"0","1","2","3","4","5","6","7","8","9"}

\* "Characters: Alphanumeric, dashes, underscores only"
AllowedChars == Letters \cup Digits \cup {"-", "_"}

\* "Length: Limited to 255 characters (Git constraint)"
MaxBranchNameLen == 255

\* "Separator: Use - (dash)"
Separator == <<"-">>

\* let branch_name = format!("{}-{}", game_name, save_name);
derive_branch_name(game_name, save_name) ==
    game_name \o Separator \o save_name

(***************************************************************************)
(* SpecName: the name built for every pair of a bounded set of inputs.     *)
(***************************************************************************)
MaxNameLen == 2

NameAlphabet == {"a", "Z", "7", "-", "_", " ", "!"}

RECURSIVE SeqsUpTo(_, _)
SeqsUpTo(S, n) ==
    IF n = 0 THEN {<<>>}
    ELSE LET shorter == SeqsUpTo(S, n - 1)
         IN  shorter \cup {Append(s, x) : s \in shorter, x \in S}

BoundedNames == SeqsUpTo(NameAlphabet, MaxNameLen) \ {<<>>}

Skyrim == <<"S","k","y","r","i","m">>

MainQuestDragonbane ==
    <<"M","a","i","n"," ","Q","u","e","s","t"," ","-"," ",
      "D","r","a","g","o","n","b","a","n","e">>

SkyrimMainQuestDragonbane ==
    <<"S","k","y","r","i","m","-","M","a","i","n","-","Q","u","e","s","t","-",
      "D","r","a","g","o","n","b","a","n","e">>

InitNameIdle ==
    /\ nmGame = <<>>
    /\ nmSave = <<>>
    /\ nmResult = <<>>
    /\ nmDone = FALSE

InitName ==
    /\ \/ nmGame \in BoundedNames /\ nmSave \in BoundedNames
       \/ nmGame = Skyrim /\ nmSave = MainQuestDragonbane
    /\ nmResult = <<>>
    /\ nmDone = FALSE

BuildBranchName ==
    /\ ~nmDone
    /\ nmResult' = derive_branch_name(nmGame, nmSave)
    /\ nmDone' = TRUE
    /\ UNCHANGED <<nmGame, nmSave>>
    /\ UNCHANGED notNameVars

(***************************************************************************)
(* The master repository and the git_branches table.                      *)
(***************************************************************************)
Games == {1, 2}

\* SELECT name FROM games WHERE id = ?
GameName(g) == IF g = 1 THEN <<"A">> ELSE <<"A", "-", "B">>

\* The save names the user enters for game g.
SaveNamesOf(g) == IF g = 1 THEN {<<"C">>, <<"B", "-", "C">>} ELSE {<<"C">>}

\* The branch names the commands are called with for game g.
BranchNamesOf(g) == {derive_branch_name(GameName(g), s) : s \in SaveNamesOf(g)}

\* Current Branch: gitHistory?.current_branch || 'main'
MainBranch == <<"m", "a", "i", "n">>

\* The two invokers of the commands: the UI, which offers every command, and
\* the change-event handler, which creates checkpoints.
Callers == {"ui", "auto"}

UiCallers == {"ui"}

MaxCommits == 3

Contents == {<<0>>, <<1>>}

RECURSIVE HashUpdate(_, _)
HashUpdate(h, bytes) ==
    IF bytes = <<>> THEN h
    ELSE HashUpdate((h * 31 + Head(bytes) + 1) % 251, Tail(bytes))

\* hasher = new(); loop { hasher.update(&buffer[..bytes_read]) }; finalize()
calculate_file_hash(bytes) == HashUpdate(7, bytes)

TreeOf(c) == commits[c].tree

NoOp ==
    [kind |-> "none", game |-> 0, branch |-> <<>>, commit |-> 0,
     confirmed |-> FALSE, status |-> "none"]

Command(kind, g, b, h, confirmed) ==
    [kind |-> kind, game |-> g, branch |-> b, commit |-> h,
     confirmed |-> confirmed, status |-> "running"]

InitialTree == [g \in Games |-> <<0>>]

\* initialize_master_repo(): the repository with its first commit on main
\* holding the save files as they are, an empty git_branches table, no command
\* running.
InitRepo ==
    /\ commits = <<[tree |-> InitialTree, parent |-> 0, branch |-> MainBranch,
                    game |-> 0, content_hash |-> calculate_file_hash(<<>>)]>>
    /\ refs = [b \in {MainBranch} |-> 1]
    /\ head = MainBranch
    /\ worktree = InitialTree
    /\ git_branches = {}
    /\ pc = [c \in Callers |-> "idle"]
    /\ op = [c \in Callers |-> NoOp]

\* Git LFS configuration in .gitattributes.
LfsAttributes == {"*.sav", "*.save", "*.zst"}

MaxOpens == 3

\* The master repository exists: initialize_master_repo ran once.
InitOpened ==
    /\ repo_initialized = TRUE
    /\ attributes = LfsAttributes
    /\ opened = [calls |-> 1, found |-> 0]

\* A new installation: no repository yet.
InitNoRepo ==
    /\ commits = <<>>
    /\ refs = <<>>
    /\ head = MainBranch
    /\ worktree = InitialTree
    /\ git_branches = {}
    /\ pc = [c \in Callers |-> "idle"]
    /\ op = [c \in Callers |-> NoOp]
    /\ repo_initialized = FALSE
    /\ attributes = {}
    /\ opened = [calls |-> 0, found |-> 0]

\* The repository as initialization creates it.
NewRepository ==
    [commits |-> <<[tree |-> worktree, parent |-> 0, branch |-> MainBranch,
                    game |-> 0, content_hash |-> calculate_file_hash(<<>>)]>>,
     refs |-> [b \in {MainBranch} |-> 1],
     head |-> MainBranch,
     attributes |-> LfsAttributes]

\* An open that sets the repository up again whether or not it exists.
ReinitializedRepository(exists) == NewRepository

\* The repository an open returns: the existing one, or a new one.
OpenedRepository(exists) ==
    IF exists
    THEN [commits |-> commits, refs |-> refs, head |-> head,
          attributes |-> attributes]
    ELSE NewRepository

\* initialize_master_repo(): sets up the main Git repository.
initialize_master_repo ==
    /\ opened.calls < MaxOpens
    /\ \A c \in Callers : pc[c] = "idle"
    /\ LET repo == OpenedRepository(repo_initialized)
       IN  /\ commits' = repo.commits
           /\ refs' = repo.refs
           /\ head' = repo.head
           /\ attributes' = repo.attributes
    /\ repo_initialized' = TRUE
    /\ opened' = [calls |-> opened.calls + 1, found |-> Len(commits)]
    /\ UNCHANGED <<worktree, git_branches, pc, op>>
    /\ UNCHANGED notRepoOpenVars

\* The paths a checkout to target would overwrite although they hold
\* uncommitted changes (the working tree differs from the checked-out tip).
Conflicts(base, target) ==
    {g \in Games : base[g] # target[g] /\ worktree[g] # base[g]}

\* Checkout: the working directory is updated to the target tree; paths equal
\* in both trees keep what the working tree holds.
CheckoutTree(base, target) ==
    [g \in Games |-> IF base[g] # target[g] THEN target[g] ELSE worktree[g]]

\* Create Branch: fork from current HEAD.
ForkFromHead(b) ==
    [x \in DOMAIN refs \cup {b} |-> IF x = b THEN refs[head] ELSE refs[x]]

Row(g, b, active) == [game_id |-> g, branch_name |-> b, is_active |-> active]

\* A save_branch_info that stores the row as active and leaves the game's
\* other rows as they are.
save_branch_info_keep_others(rows, g, b) ==
    {r \in rows : ~(r.game_id = g /\ r.branch_name = b)} \cup {Row(g, b, TRUE)}

\* save_branch_info(db, game_id, &branch_name, None): "Store branch name and
\* mark as active for game"; the other branches of the game stop being active.
save_branch_info(rows, g, b) ==
    {r \in rows : r.game_id # g}
        \cup {Row(g, r.branch_name, FALSE) :
                r \in {x \in rows : x.game_id = g /\ x.branch_name # b}}
        \cup {Row(g, b, TRUE)}

\* Switching Branches, step 4: "Update active branch state".
set_active_branch(rows, g, b) ==
    {r \in rows : r.game_id # g}
        \cup {Row(g, r.branch_name, r.branch_name = b) :
                r \in {x \in rows : x.game_id = g}}

\* An invocation that also starts over a command whose answer is waiting.
InvokeAgain(c, command, step) ==
    /\ pc[c] \in {"idle", "done"}
    /\ pc' = [pc EXCEPT ![c] = step]
    /\ op' = [op EXCEPT ![c] = command]

\* The command of caller c is invoked.
Invoke(c, command, step) ==
    /\ pc[c] = "idle"
    /\ pc' = [pc EXCEPT ![c] = step]
    /\ op' = [op EXCEPT ![c] = command]

\* The command of caller c ends with `status`; the answer is not yet delivered.
Finish(c, command, status) ==
    /\ pc' = [pc EXCEPT ![c] = "done"]
    /\ op' = [op EXCEPT ![c] = [command EXCEPT !.status = status]]

Goto(c, step) == pc' = [pc EXCEPT ![c] = step]

\* The answer reaches the caller (the invoke() promise settles).
Return(c) ==
    /\ pc[c] = "done"
    /\ pc' = [pc EXCEPT ![c] = "idle"]
    /\ op' = [op EXCEPT ![c] = NoOp]
    /\ UNCHANGED <<refs, commits, head, worktree, git_branches>>
    /\ UNCHANGED notRepoVars

\* The game writes its save files.
FileEdit(g, bytes) ==
    /\ worktree[g] # bytes
    /\ worktree' = [worktree EXCEPT ![g] = bytes]
    /\ UNCHANGED <<refs, commits, head, git_branches, pc, op>>
    /\ UNCHANGED notRepoVars

(***************************************************************************)
(* create_save_checkpoint(game_id, save_name)                              *)
(***************************************************************************)
CommitsPlanned ==
    Len(commits) + Cardinality({c \in Callers : pc[c] = "ck_commit"})

\* Steps 1-6: the game name is read from the database (the database lock is
\* held for that query only), the branch name is built; if the branch exists,
\* switch to it instead of creating, otherwise fork it from the current HEAD;
\* check it out.
CheckpointBranch(c, g, s) ==
    /\ CommitsPlanned < MaxCommits
    /\ LET b == derive_branch_name(GameName(g), s)
           cmd == Command("checkpoint", g, b, 0, FALSE)
           base == TreeOf(refs[head])
       IN  IF b \in DOMAIN refs
           THEN IF Conflicts(base, TreeOf(refs[b])) # {}
                THEN /\ pc[c] = "idle"
                     /\ Finish(c, cmd, "DirtyWorkingTree")
                     /\ UNCHANGED <<refs, head, worktree>>
                ELSE /\ Invoke(c, cmd, "ck_commit")
                     /\ worktree' = CheckoutTree(base, TreeOf(refs[b]))
                     /\ head' = b
                     /\ UNCHANGED refs
           ELSE /\ Invoke(c, cmd, "ck_commit")
                /\ refs' = ForkFromHead(b)
                /\ head' = b
                /\ UNCHANGED worktree
    /\ UNCHANGED <<commits, git_branches>>
    /\ UNCHANGED notRepoVars

\* A commit that starts over from the tip of main, leaving out what its
\* branch held.
NewCommitFromMain(g) ==
    [tree |-> [TreeOf(refs[MainBranch]) EXCEPT ![g] = worktree[g]],
     parent |-> refs[MainBranch],
     branch |-> head,
     game |-> g,
     content_hash |-> calculate_file_hash(worktree[g])]

\* The checkpoint commit: the game's working-tree save files are committed on
\* the checked-out branch.
NewCommit(g) ==
    [tree |-> [TreeOf(refs[head]) EXCEPT ![g] = worktree[g]],
     parent |-> refs[head],
     branch |-> head,
     game |-> g,
     content_hash |-> calculate_file_hash(worktree[g])]

CheckpointCommit(c) ==
    /\ pc[c] = "ck_commit"
    /\ commits' = Append(commits, NewCommit(op[c].game))
    /\ refs' = [refs EXCEPT ![head] = Len(commits) + 1]
    /\ Goto(c, "ck_db")
    /\ UNCHANGED <<head, worktree, git_branches, op>>
    /\ UNCHANGED notRepoVars

\* Step 7: save_branch_info(db, game_id, &branch_name, None).
CheckpointSave(c) ==
    /\ pc[c] = "ck_db"
    /\ git_branches' = save_branch_info(git_branches, op[c].game, op[c].branch)
    /\ Finish(c, op[c], "ok")
    /\ UNCHANGED <<refs, commits, head, worktree>>
    /\ UNCHANGED notRepoVars

(***************************************************************************)
(* create_save_branch(game_id, branch_name, description?)                  *)
(***************************************************************************)
\* Create named branch: forked from the current HEAD, not checked out.
CreateBranchGit(c, g, b) ==
    /\ LET cmd == Command("create_branch", g, b, 0, FALSE)
       IN  IF b \in DOMAIN refs
           THEN /\ pc[c] = "idle"
                /\ Finish(c, cmd, "BranchExists")
                /\ UNCHANGED refs
           ELSE /\ Invoke(c, cmd, "cb_db")
                /\ refs' = ForkFromHead(b)
    /\ UNCHANGED <<commits, head, worktree, git_branches>>
    /\ UNCHANGED notRepoVars

CreateBranchSave(c) ==
    /\ pc[c] = "cb_db"
    /\ git_branches' = save_branch_info(git_branches, op[c].game, op[c].branch)
    /\ Finish(c, op[c], "ok")
    /\ UNCHANGED <<refs, commits, head, worktree>>
    /\ UNCHANGED notRepoVars

(***************************************************************************)
(* switch_save_branch(game_id, branch_name)                                *)
(***************************************************************************)
\* 1. Find Branch: locate Git branch by name. 2. Checkout: update working
\* directory.
SwitchCheckout(c, g, b) ==
    /\ LET cmd == Command("switch", g, b, 0, FALSE)
           base == TreeOf(refs[head])
       IN  IF b \notin DOMAIN refs
           THEN /\ pc[c] = "idle"
                /\ Finish(c, cmd, "BranchNotFound")
                /\ UNCHANGED worktree
           ELSE IF Conflicts(base, TreeOf(refs[b])) # {}
                THEN /\ pc[c] = "idle"
                     /\ Finish(c, cmd, "DirtyWorkingTree")
                     /\ UNCHANGED worktree
                ELSE /\ Invoke(c, cmd, "sw_head")
                     /\ worktree' = CheckoutTree(base, TreeOf(refs[b]))
    /\ UNCHANGED <<refs, commits, head, git_branches>>
    /\ UNCHANGED notRepoVars

\* 3. Set HEAD: point repository HEAD to branch.
SwitchSetHead(c) ==
    /\ pc[c] = "sw_head"
    /\ head' = op[c].branch
    /\ Goto(c, "sw_db")
    /\ UNCHANGED <<refs, commits, worktree, git_branches, op>>
    /\ UNCHANGED notRepoVars

\* 4. Update Database: update active branch state.
SwitchSave(c) ==
    /\ pc[c] = "sw_db"
    /\ git_branches' = set_active_branch(git_branches, op[c].game, op[c].branch)
    /\ Finish(c, op[c], "ok")
    /\ UNCHANGED <<refs, commits, head, worktree>>
    /\ UNCHANGED notRepoVars

(***************************************************************************)
(* restore_to_commit(game_id, commit_hash)                                 *)
(* The command takes the game and the commit; `confirmed` is what the      *)
(* user answered to the caller, the command has no parameter for it.       *)
(***************************************************************************)
\* 1. Find Commit: locate by hash. The caller passes a hash from the history
\* of the game.
RestoreFind(c, g, h, confirmed) ==
    /\ h \in 1..Len(commits) => commits[h].game = g
    /\ LET cmd == Command("restore", g, <<>>, h, confirmed)
       IN  IF h \in 1..Len(commits)
           THEN Invoke(c, cmd, "rs_checkout")
           ELSE pc[c] = "idle" /\ Finish(c, cmd, "CommitNotFound")
    /\ UNCHANGED <<refs, commits, head, worktree, git_branches>>
    /\ UNCHANGED notRepoVars

\* A restore that checks the commit out the way a branch switch does, keeping
\* the files the working tree holds where the two trees agree.
RestoredTreeKeepLocal(h) == CheckoutTree(TreeOf(refs[head]), TreeOf(h))

\* 2. Checkout Tree: update working directory to commit state.
RestoredTree(h) == TreeOf(h)

RestoreCheckout(c) ==
    /\ pc[c] = "rs_checkout"
    /\ worktree' = RestoredTree(op[c].commit)
    /\ Finish(c, op[c], "ok")
    /\ UNCHANGED <<refs, commits, head, git_branches>>
    /\ UNCHANGED notRepoVars

(***************************************************************************)
(* Deadlines: a checkpoint or restore records the repository it found and  *)
(* starts its timer; when the deadline passes before it has finished, its  *)
(* changes are rolled back and it returns OperationTimedOut.               *)
(***************************************************************************)
Deadline == 2

Snapshot ==
    [refs |-> refs, commits |-> commits, head |-> head,
     worktree |-> worktree, git_branches |-> git_branches]

NoSnapshot ==
    [refs |-> <<>>, commits |-> <<>>, head |-> <<>>, worktree |-> <<>>,
     git_branches |-> {}]

InitDeadline ==
    /\ elapsed = 0
    /\ snapshot = NoSnapshot

AllIdle == \A c \in Callers : pc[c] = "idle"

\* The operation about to start records the state and starts its timer.
ArmDeadline ==
    /\ AllIdle
    /\ snapshot # Snapshot \/ elapsed # 0
    /\ snapshot' = Snapshot
    /\ elapsed' = 0
    /\ UNCHANGED repoVars
    /\ UNCHANGED notRepoDeadlineVars

Armed == snapshot = Snapshot /\ elapsed = 0

\* Time passes while an operation runs.
DeadlineTick ==
    /\ \E c \in Callers : pc[c] \notin {"idle", "done"}
    /\ elapsed <= Deadline
    /\ elapsed' = elapsed + 1
    /\ UNCHANGED snapshot
    /\ UNCHANGED repoVars
    /\ UNCHANGED notRepoDeadlineVars

InTime == elapsed <= Deadline

\* A rollback that restores everything but the branches.
RolledBackKeepBranches(snap) == [snap EXCEPT !.refs = refs]

\* The state a rollback restores.
RolledBack(snap) == snap

\* The deadline has passed: the operation is rolled back and returns
\* OperationTimedOut.
TimeOut(c) ==
    /\ pc[c] \notin {"idle", "done"}
    /\ ~InTime
    /\ LET back == RolledBack(snapshot)
       IN  /\ refs' = back.refs
           /\ commits' = back.commits
           /\ head' = back.head
           /\ worktree' = back.worktree
           /\ git_branches' = back.git_branches
    /\ Finish(c, op[c], "OperationTimedOut")
    /\ UNCHANGED deadlineVars
    /\ UNCHANGED notRepoDeadlineVars

(***************************************************************************)
(* Monitoring: the watcher's change events of the monitored games are      *)
(* accepted and dispatched as checkpoints of the change-event handler; a   *)
(* game removed from monitoring is fenced.                                 *)
(***************************************************************************)
Handler == "auto"

InitFence ==
    /\ monitored = Games
    /\ events = [g \in Games |-> "none"]
    /\ in_flight_at_removal = {}

\* The checkpoint of game g requested by the handler is running.
CheckpointInFlight(g) ==
    /\ pc[Handler] \notin {"idle", "done"}
    /\ op[Handler].game = g

\* The watcher reports a change of game g and the event is accepted.
AcceptEvent(g) ==
    /\ g \in monitored
    /\ events[g] = "none"
    /\ events' = [events EXCEPT ![g] = "accepted"]
    /\ UNCHANGED <<monitored, in_flight_at_removal>>
    /\ UNCHANGED notFenceVars

\* Policy accepts the event: a checkpoint is requested for the game.
DispatchEvent(g) ==
    /\ g \in monitored
    /\ events[g] = "accepted"
    /\ pc[Handler] = "idle"
    /\ \A x \in Games : events[x] # "dispatched"
    /\ events' = [events EXCEPT ![g] = "dispatched"]
    /\ UNCHANGED <<monitored, in_flight_at_removal>>
    /\ UNCHANGED notFenceVars

\* The checkpoint requested for the event of game g has ended.
CompleteEvent(g) ==
    /\ events[g] = "dispatched"
    /\ pc[Handler] = "done"
    /\ op[Handler].game = g
    /\ events' = [events EXCEPT ![g] = "none"]
    /\ UNCHANGED <<monitored, in_flight_at_removal>>
    /\ UNCHANGED notFenceVars

\* A removal that unsubscribes the watcher and leaves the events as they are.
UnfencedEvents(g) == events

\* The events after game g is removed: what was accepted or dispatched for
\* it is dropped, unless its checkpoint is already running.
FencedEvents(g) ==
    IF CheckpointInFlight(g) \/ (pc[Handler] = "done" /\ op[Handler].game = g)
    THEN events
    ELSE [events EXCEPT ![g] = "none"]

\* Game g is removed from monitoring.
RemoveGame(g) ==
    /\ g \in monitored
    /\ monitored' = monitored \ {g}
    /\ events' = FencedEvents(g)
    /\ in_flight_at_removal' =
          IF CheckpointInFlight(g) THEN in_flight_at_removal \cup {g}
          ELSE in_flight_at_removal
    /\ UNCHANGED notFenceVars

(***************************************************************************)
(* Backup-trigger policy: the rate limit of BackupTriggers. A significant  *)
(* change of a game triggers a checkpoint unless the game's latest trigger *)
(* is closer than maximum_backup_frequency.                                *)
(***************************************************************************)
MaxTriggerTime == 4

\* pub maximum_backup_frequency: Duration, // Rate limiting
maximum_backup_frequency == 2

NoTrigger == -1

InitRate ==
    /\ trigger_clock = 0
    /\ last_trigger = [g \in Games |-> NoTrigger]
    /\ triggers = <<>>
    /\ rate_limited = {}

\* A rate limit that counts the latest trigger of any game.
RateLimitedByAnyGame(g) ==
    \E x \in Games :
        /\ last_trigger[x] # NoTrigger
        /\ trigger_clock - last_trigger[x] < maximum_backup_frequency

\* The game's latest trigger is closer than the maximum trigger frequency
\* allows.
RateLimited(g) ==
    /\ last_trigger[g] # NoTrigger
    /\ trigger_clock - last_trigger[g] < maximum_backup_frequency

\* A significant change of game g reaches the policy: it triggers a
\* checkpoint of g or is dropped by the rate limit.
SignificantChange(g) ==
    /\ IF RateLimited(g)
       THEN /\ <<g, trigger_clock>> \notin rate_limited
            /\ rate_limited' = rate_limited \cup {<<g, trigger_clock>>}
            /\ UNCHANGED <<last_trigger, triggers>>
       ELSE /\ triggers' = Append(triggers, [game |-> g, at |-> trigger_clock])
            /\ last_trigger' = [last_trigger EXCEPT ![g] = trigger_clock]
            /\ UNCHANGED rate_limited
    /\ UNCHANGED trigger_clock
    /\ UNCHANGED notRateVars

TriggerClockTick ==
    /\ trigger_clock < MaxTriggerTime
    /\ trigger_clock' = trigger_clock + 1
    /\ UNCHANGED <<last_trigger, triggers, rate_limited>>
    /\ UNCHANGED notRateVars

(***************************************************************************)
(* FileSystemWatcher::watch_directory on each platform: the kernel queues  *)
(* the events of the watched directory in the order the changes were       *)
(* applied, and the backend hands them to the change detector.             *)
(***************************************************************************)
MaxFsChanges == 3

\* let mut buffer = [0; 1024]: the events one read_events call returns.
BufferEvents == 2

Backends == {"windows", "linux", "macos"}

\* Created, Modified, Removed, and the events the backends pass over.
FsEventKinds == {"Created", "Modified", "Removed", "Other"}

InitWatch ==
    /\ backend = "none"
    /\ fs_applied = 0
    /\ kernel_queue = <<>>
    /\ buffer = <<>>
    /\ rx = <<>>
    /\ handled_events = <<>>

\* watch_directory(path) is called on platform b.
WatchDirectory(b) ==
    /\ backend = "none"
    /\ backend' = b
    /\ UNCHANGED <<fs_applied, kernel_queue, buffer, rx, handled_events>>
    /\ UNCHANGED notWatchVars

\* The filesystem applies a change to path p; the kernel queues its event.
FsChange(p, kind) ==
    /\ backend # "none"
    /\ fs_applied < MaxFsChanges
    /\ fs_applied' = fs_applied + 1
    /\ kernel_queue' =
          Append(kernel_queue,
                 [path |-> p, kind |-> kind, applied |-> fs_applied + 1])
    /\ UNCHANGED <<backend, buffer, rx, handled_events>>
    /\ UNCHANGED notWatchVars

Min(a, b) == IF a < b THEN a ELSE b

\* A read that returns the events it took, the latest first.
ReadNewestFirst(queue) ==
    [i \in 1..Min(Len(queue), BufferEvents) |->
        queue[Min(Len(queue), BufferEvents) + 1 - i]]

\* inotify.read_events(&mut buffer): the oldest events of the queue, as many
\* as the buffer holds, in the order of the queue.
ReadEvents(queue) == SubSeq(queue, 1, Min(Len(queue), BufferEvents))

\* Linux: let events = inotify.read_events(&mut buffer)?
LinuxRead ==
    /\ backend = "linux"
    /\ buffer = <<>>
    /\ kernel_queue # <<>>
    /\ buffer' = ReadEvents(kernel_queue)
    /\ kernel_queue' =
          SubSeq(kernel_queue, Len(ReadEvents(kernel_queue)) + 1,
                 Len(kernel_queue))
    /\ UNCHANGED <<backend, fs_applied, rx, handled_events>>
    /\ UNCHANGED notWatchVars

\* Linux: for event in events { self.handle_file_event(&event)?; }
LinuxHandle ==
    /\ backend = "linux"
    /\ buffer # <<>>
    /\ handled_events' = Append(handled_events, Head(buffer))
    /\ buffer' = Tail(buffer)
    /\ UNCHANGED <<backend, fs_applied, kernel_queue, rx>>
    /\ UNCHANGED notWatchVars

\* macOS: the event stream sends the next event into the channel (tx).
MacSend ==
    /\ backend = "macos"
    /\ kernel_queue # <<>>
    /\ rx' = Append(rx, Head(kernel_queue))
    /\ kernel_queue' = Tail(kernel_queue)
    /\ UNCHANGED <<backend, fs_applied, buffer, handled_events>>
    /\ UNCHANGED notWatchVars

\* macOS: while let Ok(event) = rx.recv() { match event { ... } }
MacRecv ==
    /\ backend = "macos"
    /\ rx # <<>>
    /\ handled_events' =
          IF Head(rx).kind \in {"Created", "Modified", "Removed"}
          THEN Append(handled_events, Head(rx))
          ELSE handled_events
    /\ rx' = Tail(rx)
    /\ UNCHANGED <<backend, fs_applied, kernel_queue, buffer>>
    /\ UNCHANGED notWatchVars

\* Windows: self.start_monitoring(handle) hands over the next change the
\* directory handle reports.
WindowsMonitor ==
    /\ backend = "windows"
    /\ kernel_queue # <<>>
    /\ handled_events' = Append(handled_events, Head(kernel_queue))
    /\ kernel_queue' = Tail(kernel_queue)
    /\ UNCHANGED <<backend, fs_applied, buffer, rx>>
    /\ UNCHANGED notWatchVars

\* A handler fails (the ? of the loop): watch_directory returns and the
\* events not yet handled are lost.
WatchFails ==
    /\ backend \in {"linux", "macos"}
    /\ buffer # <<>> \/ rx # <<>>
    /\ backend' = "none"
    /\ kernel_queue' = <<>>
    /\ buffer' = <<>>
    /\ rx' = <<>>
    /\ UNCHANGED <<fs_applied, handled_events>>
    /\ UNCHANGED notWatchVars

(***************************************************************************)
(* The watched directory is deleted and recreated under the Linux watcher: *)
(* the watch added by inotify.add_watch belongs to the directory that was  *)
(* there when watch_directory was called.                                  *)
(***************************************************************************)
InitRewatch ==
    /\ dir_present = TRUE
    /\ watch_removed = FALSE
    /\ changes_after_recreate = {}

\* The watched directory is deleted: the kernel drops its watch.
DeleteDirectory ==
    /\ backend = "linux"
    /\ dir_present
    /\ ~watch_removed
    /\ dir_present' = FALSE
    /\ watch_removed' = TRUE
    /\ UNCHANGED changes_after_recreate
    /\ UNCHANGED watchVars
    /\ UNCHANGED notWatchRewatchVars

\* A directory is created again at the watched path. watch_directory added
\* its watch once, before its loop, and the loop adds none.
RecreateDirectory ==
    /\ ~dir_present
    /\ dir_present' = TRUE
    /\ UNCHANGED <<watch_removed, changes_after_recreate>>
    /\ UNCHANGED watchVars
    /\ UNCHANGED notWatchRewatchVars

\* The filesystem applies a change under the watched directory while the
\* watch is in place.
WatchedChange(p, kind) ==
    /\ dir_present
    /\ ~watch_removed
    /\ FsChange(p, kind)

\* The filesystem applies a change under the recreated directory: no watch
\* is in place and the kernel queues no event.
UnwatchedChange(p, kind) ==
    /\ backend = "linux"
    /\ dir_present
    /\ watch_removed
    /\ fs_applied < MaxFsChanges
    /\ fs_applied' = fs_applied + 1
    /\ changes_after_recreate' = changes_after_recreate \cup {fs_applied + 1}
    /\ UNCHANGED <<dir_present, watch_removed>>
    /\ UNCHANGED <<backend, kernel_queue, buffer, rx, handled_events>>
    /\ UNCHANGED notWatchRewatchVars

(***************************************************************************)
(* handle_save_change for the change events of several games, when         *)
(* create_backup can fail with a corrupted repository.                     *)
(***************************************************************************)
MaxChangesHandled == 5

BackupResults == {"Ok", "RepositoryCorrupted"}

NoChange ==
    [game |-> 0, should_backup |-> FALSE, triggered |-> FALSE,
     result |-> "none", notified |-> FALSE]

InitSuspend ==
    /\ fatal_raised = {}
    /\ changes_handled = 0
    /\ last_change = NoChange

\* handle_save_change(change_event) for an event of game g: the user's
\* preferences decide (should_backup_change), then create_backup is called
\* and its error, if any, is returned with ?; the user is notified of a
\* backup if configured.
HandleChangeOfGame(g, should_backup, backup_result, should_notify) ==
    /\ changes_handled < MaxChangesHandled
    /\ changes_handled' = changes_handled + 1
    /\ IF should_backup
       THEN /\ last_change' =
                  [game |-> g, should_backup |-> TRUE, triggered |-> TRUE,
                   result |-> backup_result,
                   notified |-> backup_result = "Ok" /\ should_notify]
            /\ fatal_raised' =
                  IF backup_result = "RepositoryCorrupted"
                  THEN fatal_raised \cup {g} ELSE fatal_raised
       ELSE /\ last_change' =
                  [game |-> g, should_backup |-> FALSE, triggered |-> FALSE,
                   result |-> "Ok", notified |-> FALSE]
            /\ UNCHANGED fatal_raised
    /\ UNCHANGED notSuspendVars

\* The user turns the monitoring of game g on again.
ReEnableMonitoring(g) ==
    /\ g \in fatal_raised
    /\ fatal_raised' = fatal_raised \ {g}
    /\ UNCHANGED <<changes_handled, last_change>>
    /\ UNCHANGED notSuspendVars

(***************************************************************************)
(* get_git_history(game_id)                                                *)
(***************************************************************************)
NoHistory ==
    [game |-> 0, commits |-> <<>>, branches |-> {}, current_branch |-> <<>>]

InitHistory == history = NoHistory

\* The rows of the game's branches.
BranchesOf(g) == {r \in git_branches : r.game_id = g}

\* The commits made on the branches of the game.
CommitsOnBranchesOf(g) ==
    {i \in 1..Len(commits) :
        \E r \in BranchesOf(g) : commits[i].branch = r.branch_name}

\* Newest first: the commits in the reverse of their creation order.
RECURSIVE NewestFirst(_)
NewestFirst(S) ==
    IF S = {} THEN <<>>
    ELSE LET newest == CHOOSE i \in S : \A j \in S : j <= i
         IN  <<newest>> \o NewestFirst(S \ {newest})

get_git_history(g) ==
    [game |-> g,
     commits |-> NewestFirst(CommitsOnBranchesOf(g)),
     branches |-> BranchesOf(g),
     current_branch |-> head]

\* loadGitHistory: const history = await invoke('get_git_history', {gameId});
\* setGitHistory(history).
LoadGitHistory(g) ==
    /\ history' = get_git_history(g)
    /\ history' # history
    /\ UNCHANGED repoVars
    /\ UNCHANGED notHistoryVars

(***************************************************************************)
(* Change detection: detect_changes over the hash cache, for one save     *)
(* file that the game writes and touches while the clock advances.         *)
(***************************************************************************)
MaxClock == 3

MaxRuns == 3

FileContents == {<<0>>, <<1>>, <<0, 1>>}

\* cache_ttl: Duration
cache_ttl == 2

NoHash == -1

NoEntry ==
    [hash |-> NoHash, file_size |-> 0, last_modified |-> 0, cached_at |-> 0]

NoRun ==
    [count |-> 0, hash |-> NoHash, prior |-> NoHash, event |-> "none",
     unchanged |-> FALSE, edited |-> FALSE]

InitDetect ==
    /\ file = [bytes |-> <<0>>, modified |-> 0]
    /\ cache = NoEntry
    /\ previous_hash = NoHash
    /\ clock = 0
    /\ run = NoRun

\* A validity check that does not look at the modification time.
is_cache_valid_by_size(cached) ==
    /\ cached.file_size = Len(file.bytes)
    /\ clock - cached.cached_at < cache_ttl

\* file_size_matches && modified_time_matches && cache_not_expired
is_cache_valid(cached) ==
    /\ cached.file_size = Len(file.bytes)
    /\ cached.last_modified = file.modified
    /\ clock - cached.cached_at < cache_ttl

CacheHit == cache # NoEntry /\ is_cache_valid(cache)

\* get_or_calculate_hash: the cached hash if the entry is valid, otherwise the
\* hash calculated from the file.
get_or_calculate_hash ==
    IF CacheHit THEN cache.hash ELSE calculate_file_hash(file.bytes)

\* A store that is skipped when the calculated hash is the previous one.
store_in_cache_on_change ==
    IF CacheHit \/ calculate_file_hash(file.bytes) = previous_hash THEN cache
    ELSE [hash |-> calculate_file_hash(file.bytes),
          file_size |-> Len(file.bytes),
          last_modified |-> file.modified,
          cached_at |-> clock]

\* store_in_cache(path, &hash), after a calculation.
store_in_cache ==
    IF CacheHit THEN cache
    ELSE [hash |-> calculate_file_hash(file.bytes),
          file_size |-> Len(file.bytes),
          last_modified |-> file.modified,
          cached_at |-> clock]

\* The event of a run: none when current_hash == previous_hash, which the
\* first run of a detector finds (test_change_detection_accuracy: the initial
\* detect_changes returns no change), FileModified otherwise.
ClassifyChange(current_hash, previous) ==
    IF current_hash = previous \/ previous = NoHash THEN "none"
    ELSE "FileModified"

\* detect_changes(save_path); the hash of the run becomes the previous hash
\* of the next one.
detect_changes ==
    /\ run.count < MaxRuns
    /\ LET current_hash == get_or_calculate_hash
       IN  /\ run' = [count |-> run.count + 1,
                      hash |-> current_hash,
                      prior |-> run.hash,
                      event |-> ClassifyChange(current_hash, previous_hash),
                      unchanged |-> ~run.edited,
                      edited |-> FALSE]
           /\ previous_hash' = current_hash
    /\ cache' = store_in_cache
    /\ UNCHANGED <<file, clock>>
    /\ UNCHANGED notDetectVars

\* The game writes the save file: the modification time is the time of the
\* write.
WriteSave(bytes) ==
    /\ bytes # file.bytes
    /\ file' = [bytes |-> bytes, modified |-> clock]
    /\ run' = [run EXCEPT !.edited = TRUE]
    /\ UNCHANGED <<cache, previous_hash, clock>>
    /\ UNCHANGED notDetectVars

\* The modification time changes, the bytes do not.
TouchSave ==
    /\ file.modified # clock
    /\ file' = [file EXCEPT !.modified = clock]
    /\ UNCHANGED <<cache, previous_hash, clock, run>>
    /\ UNCHANGED notDetectVars

ClockTick ==
    /\ clock < MaxClock
    /\ clock' = clock + 1
    /\ UNCHANGED <<file, cache, previous_hash, run>>
    /\ UNCHANGED notDetectVars

(***************************************************************************)
(* Debounce: the events of a path that arrive while its window is open    *)
(* collapse into one, handed to policy when the window closes.             *)
(***************************************************************************)
MaxTime == 6

MaxEvents == 10

WatchedPaths == {"slot1", "slot2"}

\* min_change_interval: Duration, // Debounce time: 5 seconds
min_change_interval == 5

NoPending ==
    [event |-> 0, latest |-> 0, count |-> 0, first |-> 0, last |-> 0,
     deadline |-> 0]

InitDebounce ==
    /\ now = 0
    /\ pending = [p \in WatchedPaths |-> NoPending]
    /\ delivered = <<>>
    /\ next_event = 1

\* A collapse that keeps the event that opened the window.
CollapseKeepFirst(held, event) == held

\* Events within the window collapse into the single latest event.
Collapse(held, event) == event

\* A significant change event for path p arrives.
ChangeArrives(p) ==
    /\ next_event <= MaxEvents
    /\ IF pending[p].count = 0
       THEN pending' = [pending EXCEPT ![p] =
                [event |-> next_event, latest |-> next_event, count |-> 1,
                 first |-> now, last |-> now,
                 deadline |-> now + min_change_interval]]
       ELSE /\ now < pending[p].deadline
            /\ pending' = [pending EXCEPT ![p] =
                [@ EXCEPT !.event = Collapse(@, next_event),
                          !.latest = next_event,
                          !.count = @ + 1,
                          !.last = now]]
    /\ next_event' = next_event + 1
    /\ UNCHANGED <<now, delivered>>
    /\ UNCHANGED notDebounceVars

\* The window of path p closes: its event is handed to policy, which
\* requests one checkpoint.
WindowCloses(p) ==
    /\ pending[p].count > 0
    /\ now >= pending[p].deadline
    /\ delivered' = Append(delivered,
            [path |-> p, event |-> pending[p].event,
             latest |-> pending[p].latest, count |-> pending[p].count,
             first |-> pending[p].first, last |-> pending[p].last])
    /\ pending' = [pending EXCEPT ![p] = NoPending]
    /\ UNCHANGED <<now, next_event>>
    /\ UNCHANGED notDebounceVars

\* The clock advances; a window that is due closes first.
TimePasses ==
    /\ now < MaxTime
    /\ \A p \in WatchedPaths :
           pending[p].count > 0 => now < pending[p].deadline
    /\ now' = now + 1
    /\ UNCHANGED <<pending, delivered, next_event>>
    /\ UNCHANGED notDebounceVars

(***************************************************************************)
(* Change analysis: detect_changes for a save directory with one save      *)
(* file, which the game creates, rewrites and deletes between the calls.   *)
(* analyze_file_changes compares the recorded file state with the current  *)
(* one and the changes become ChangeEvents.                                *)
(***************************************************************************)
MaxAnalyses == 3

MaxFsTime == 2

\* No detect_changes has run: the detector has recorded no state.
NoState == [recorded |-> FALSE, present |-> FALSE, hash |-> NoHash,
            size |-> 0, modified |-> 0]

InitAnalysis ==
    /\ save_file = [exists |-> TRUE, bytes |-> <<0>>, modified |-> 0]
    /\ previous_state = NoState
    /\ changes = <<>>
    /\ analyses = 0
    /\ fs_time = 0

\* get_current_file_state(save_path)
current_state ==
    IF save_file.exists
    THEN [recorded |-> TRUE, present |-> TRUE,
          hash |-> calculate_file_hash(save_file.bytes),
          size |-> Len(save_file.bytes), modified |-> save_file.modified]
    ELSE [recorded |-> TRUE, present |-> FALSE, hash |-> NoHash,
          size |-> 0, modified |-> 0]

\* find_added_files(&previous_state, &current_state)
find_added_files(previous, current) ==
    ~previous.present /\ current.present

\* find_removed_files(&previous_state, &current_state)
find_removed_files(previous, current) ==
    previous.present /\ ~current.present

\* A comparison that counts every file whose hash is not the recorded one.
find_differing_files(previous, current) ==
    current.present /\ previous.hash # current.hash

\* find_modified_files(&previous_state, &current_state)
find_modified_files(previous, current) ==
    /\ previous.present /\ current.present
    /\ previous.hash # current.hash

\* ChangeConfidence of a created file: nothing of it was recorded, so hash,
\* size and timestamp all changed.
FileCreated ==
    [kind |-> "FileCreated", confidence |-> "High"]

\* FileModified { path, old_hash, new_hash, change_percentage,
\* modification_type } and FileDeleted { path, old_hash, deletion_type }
\* carry no confidence.
FileModified ==
    [kind |-> "FileModified", confidence |-> "none"]

FileDeleted ==
    [kind |-> "FileDeleted", confidence |-> "none"]

\* The events of analyze_file_changes: files_added, files_removed,
\* files_modified.
ChangeEvents(previous, current) ==
    (IF find_added_files(previous, current) THEN <<FileCreated>> ELSE <<>>)
        \o (IF find_removed_files(previous, current)
            THEN <<FileDeleted>> ELSE <<>>)
        \o (IF find_modified_files(previous, current)
            THEN <<FileModified>> ELSE <<>>)

\* detect_changes(save_path): no changes when current_hash == previous_hash,
\* as in the first call of a detector; otherwise the analysed changes.
AnalyzeChanges ==
    /\ analyses < MaxAnalyses
    /\ analyses' = analyses + 1
    /\ changes' =
          IF ~previous_state.recorded
                \/ current_state.hash = previous_state.hash
          THEN <<>>
          ELSE ChangeEvents(previous_state, current_state)
    /\ previous_state' = current_state
    /\ UNCHANGED <<save_file, fs_time>>
    /\ UNCHANGED notAnalysisVars

\* The game writes the save file, creating it if it is not there.
WriteSaveFile(bytes) ==
    /\ ~save_file.exists \/ save_file.bytes # bytes
    /\ save_file' = [exists |-> TRUE, bytes |-> bytes, modified |-> fs_time]
    /\ UNCHANGED <<previous_state, changes, analyses, fs_time>>
    /\ UNCHANGED notAnalysisVars

\* The save file is deleted.
DeleteSaveFile ==
    /\ save_file.exists
    /\ save_file' = [exists |-> FALSE, bytes |-> <<>>, modified |-> 0]
    /\ UNCHANGED <<previous_state, changes, analyses, fs_time>>
    /\ UNCHANGED notAnalysisVars

FsTimeTick ==
    /\ fs_time < MaxFsTime
    /\ fs_time' = fs_time + 1
    /\ UNCHANGED <<save_file, previous_state, changes, analyses>>
    /\ UNCHANGED notAnalysisVars

(***************************************************************************)
(* Concurrent access: tokio::sync::Mutex<Database> is the lock of the      *)
(* commands. db.lock().await queues the caller, first come first served;   *)
(* the guard is dropped when the scope of the statement ends, whether the  *)
(* statement succeeded, failed or its future was cancelled. The Git steps  *)
(* of a command run between its statements, holding no lock.               *)
(***************************************************************************)
LockCommandsOf(c) ==
    IF c \in UiCallers THEN {"checkpoint", "switch", "restore"}
    ELSE {"checkpoint"}

LockWaiting == {"query_wait", "save_wait"}

LockHolding == {"query", "save"}

NoLockOp == [kind |-> "none", status |-> "none", at |-> "idle"]

InitLock ==
    /\ db_holder = "none"
    /\ db_waiters = <<>>
    /\ lk_pc = [c \in Callers |-> "idle"]
    /\ lk_op = [c \in Callers |-> NoLockOp]

Without(q, c) == SelectSeq(q, LAMBDA x : x # c)

\* A mutex that hands the guard to any of its waiters.
IsAnyWaiter(c) == \E i \in 1..Len(db_waiters) : db_waiters[i] = c

\* The mutex is fair: the guard goes to the caller that has waited longest.
IsNextWaiter(c) == db_waiters # <<>> /\ Head(db_waiters) = c

\* A guard that is dropped only when the statement succeeded.
DropGuardOnSuccess(c, status) ==
    db_holder' = IF db_holder = c /\ status = "ok" THEN "none" ELSE db_holder

\* The guard of caller c goes out of scope.
DropGuard(c, status) ==
    db_holder' = IF db_holder = c THEN "none" ELSE db_holder

\* The command ends at its current step with `status`.
LockFinish(c, status) ==
    /\ lk_pc' = [lk_pc EXCEPT ![c] = "done"]
    /\ lk_op' = [lk_op EXCEPT ![c].status = status, ![c].at = lk_pc[c]]

\* A command is invoked. create_save_checkpoint starts with the query of the
\* game name; switch_save_branch and restore_to_commit start with Git steps.
LockInvoke(c, kind) ==
    /\ lk_pc[c] = "idle"
    /\ lk_op' = [lk_op EXCEPT ![c] =
                    [kind |-> kind, status |-> "running", at |-> "idle"]]
    /\ IF kind = "checkpoint"
       THEN /\ lk_pc' = [lk_pc EXCEPT ![c] = "query_wait"]
            /\ db_waiters' = Append(db_waiters, c)
       ELSE /\ lk_pc' = [lk_pc EXCEPT ![c] = "git"]
            /\ UNCHANGED db_waiters
    /\ UNCHANGED db_holder
    /\ UNCHANGED notLockVars

\* lock().await returns the guard.
DbAcquire(c) ==
    /\ lk_pc[c] \in LockWaiting
    /\ db_holder = "none"
    /\ IsNextWaiter(c)
    /\ db_holder' = c
    /\ db_waiters' = Without(db_waiters, c)
    /\ lk_pc' = [lk_pc EXCEPT ![c] =
                    IF lk_pc[c] = "query_wait" THEN "query" ELSE "save"]
    /\ UNCHANGED lk_op
    /\ UNCHANGED notLockVars

\* let game_name = { /* SELECT name FROM games WHERE id = ? */ };
DbQuery(c, found) ==
    /\ lk_pc[c] = "query"
    /\ DropGuard(c, IF found THEN "ok" ELSE "error")
    /\ IF found
       THEN lk_pc' = [lk_pc EXCEPT ![c] = "git"] /\ UNCHANGED lk_op
       ELSE LockFinish(c, "error")
    /\ UNCHANGED db_waiters
    /\ UNCHANGED notLockVars

\* The Git steps of the command; a checkpoint and a switch go on to their
\* database statement.
LockGitSteps(c, ok) ==
    /\ lk_pc[c] = "git"
    /\ IF ~ok THEN LockFinish(c, "error") /\ UNCHANGED db_waiters
       ELSE IF lk_op[c].kind = "restore"
            THEN LockFinish(c, "ok") /\ UNCHANGED db_waiters
            ELSE /\ lk_pc' = [lk_pc EXCEPT ![c] = "save_wait"]
                 /\ db_waiters' = Append(db_waiters, c)
                 /\ UNCHANGED lk_op
    /\ UNCHANGED db_holder
    /\ UNCHANGED notLockVars

\* save_branch_info(db, game_id, &branch_name, None).await?
DbSave(c, ok) ==
    /\ lk_pc[c] = "save"
    /\ DropGuard(c, IF ok THEN "ok" ELSE "error")
    /\ LockFinish(c, IF ok THEN "ok" ELSE "error")
    /\ UNCHANGED db_waiters
    /\ UNCHANGED notLockVars

\* The deadline of the command passes: its future is dropped where it is.
LockTimeout(c) ==
    /\ lk_pc[c] \in LockWaiting \cup LockHolding \cup {"git"}
    /\ db_waiters' = Without(db_waiters, c)
    /\ DropGuard(c, "OperationTimedOut")
    /\ LockFinish(c, "OperationTimedOut")
    /\ UNCHANGED notLockVars

\* The answer reaches the caller.
LockReturn(c) ==
    /\ lk_pc[c] = "done"
    /\ lk_pc' = [lk_pc EXCEPT ![c] = "idle"]
    /\ lk_op' = [lk_op EXCEPT ![c] = NoLockOp]
    /\ UNCHANGED <<db_holder, db_waiters>>
    /\ UNCHANGED notLockVars

\* The steps a caller takes by itself once its command is invoked.
LockStep(c) ==
    \/ DbAcquire(c)
    \/ \E found \in BOOLEAN : DbQuery(c, found)
    \/ \E ok \in BOOLEAN : LockGitSteps(c, ok)
    \/ \E ok \in BOOLEAN : DbSave(c, ok)
    \/ LockReturn(c)

(***************************************************************************)
(* The Create Checkpoint dialog of the GameCard: the user fills in the     *)
(* Save Name and the optional Description and sends the checkpoint.         *)
(***************************************************************************)
MaxCheckpointCalls == 2

DialogGame == 1

DialogNames == {<<>>, <<" ">>, <<"C">>, <<"D">>}

DialogDescriptions == {<<>>, <<" ">>, <<"x">>, <<"y">>}

\* String.prototype.trim(): the text without its leading and trailing blanks.
RECURSIVE Trim(_)
Trim(text) ==
    IF text = <<>> THEN <<>>
    ELSE IF Head(text) = " " THEN Trim(Tail(text))
    ELSE IF text[Len(text)] = " " THEN Trim(SubSeq(text, 1, Len(text) - 1))
    ELSE text

\* const message = checkpointDescription.trim()
\*     ? `${checkpointName}\n\n${checkpointDescription}` : checkpointName;
CheckpointMessage(name, description) ==
    IF Trim(description) # <<>>
    THEN name \o <<"\n", "\n">> \o description
    ELSE name

InitDialog ==
    /\ showCheckpointDialog = FALSE
    /\ checkpointName = <<>>
    /\ checkpointDescription = <<>>
    /\ isCreatingCheckpoint = FALSE
    /\ checkpointError = "none"
    /\ checkpoint_calls = <<>>

\* The Create Checkpoint item of the card's menu.
OpenCheckpointDialog ==
    /\ ~showCheckpointDialog
    /\ showCheckpointDialog' = TRUE
    /\ UNCHANGED <<checkpointName, checkpointDescription,
                   isCreatingCheckpoint, checkpointError, checkpoint_calls>>
    /\ UNCHANGED notDialogVars

\* onChange of the Save Name field.
EnterSaveName(name) ==
    /\ showCheckpointDialog
    /\ checkpointName # name
    /\ checkpointName' = name
    /\ UNCHANGED <<showCheckpointDialog, checkpointDescription,
                   isCreatingCheckpoint, checkpointError, checkpoint_calls>>
    /\ UNCHANGED notDialogVars

\* onChange of the Description field.
EnterDescription(description) ==
    /\ showCheckpointDialog
    /\ checkpointDescription # description
    /\ checkpointDescription' = description
    /\ UNCHANGED <<showCheckpointDialog, checkpointName,
                   isCreatingCheckpoint, checkpointError, checkpoint_calls>>
    /\ UNCHANGED notDialogVars

\* The Cancel button, disabled while the checkpoint is being created.
CancelCheckpoint ==
    /\ showCheckpointDialog
    /\ ~isCreatingCheckpoint
    /\ showCheckpointDialog' = FALSE
    /\ checkpointName' = <<>>
    /\ checkpointDescription' = <<>>
    /\ checkpointError' = "none"
    /\ UNCHANGED <<isCreatingCheckpoint, checkpoint_calls>>
    /\ UNCHANGED notDialogVars

\* The Create Checkpoint button (disabled without a save name and while a
\* checkpoint is being created): the message is sent as the save name of
\* create_save_checkpoint, which builds the branch name from it.
ClickCreateCheckpoint ==
    /\ showCheckpointDialog
    /\ Trim(checkpointName) # <<>>
    /\ ~isCreatingCheckpoint
    /\ Len(checkpoint_calls) < MaxCheckpointCalls
    /\ isCreatingCheckpoint' = TRUE
    /\ checkpointError' = "none"
    /\ LET message == CheckpointMessage(checkpointName, checkpointDescription)
       IN  checkpoint_calls' =
              Append(checkpoint_calls,
                     [game |-> DialogGame,
                      save |-> checkpointName,
                      message |-> message,
                      branch |-> derive_branch_name(GameName(DialogGame),
                                                    message)])
    /\ UNCHANGED <<showCheckpointDialog, checkpointName,
                   checkpointDescription>>
    /\ UNCHANGED notDialogVars

\* The invoke() promise settles.
CheckpointSettles(ok) ==
    /\ isCreatingCheckpoint
    /\ IF ok
       THEN /\ showCheckpointDialog' = FALSE
            /\ checkpointName' = <<>>
            /\ checkpointDescription' = <<>>
            /\ UNCHANGED checkpointError
       ELSE /\ checkpointError' = "Failed to create checkpoint"
            /\ UNCHANGED <<showCheckpointDialog, checkpointName,
                           checkpointDescription>>
    /\ isCreatingCheckpoint' = FALSE
    /\ UNCHANGED checkpoint_calls
    /\ UNCHANGED notDialogVars

(***************************************************************************)
(* The GitSaveManager component: its state, its handlers up to their       *)
(* invoke() call, and the continuation each handler runs when its call     *)
(* settles. The calls of the component settle in any order.                *)
(***************************************************************************)
MaxRequests == 4

MaxConfirms == 2

NoGitHistory == [game |-> 0]

\* The GitHistoryItem get_git_history returns for game g.
HistoryOf(g) == [game |-> g]

\* useState(...) and the effect of the first render: loadGitHistory().
InitManager ==
    /\ game_prop = 1
    /\ git_games = {1}
    /\ gitEnabled = FALSE
    /\ gitHistory = NoGitHistory
    /\ isLoading = TRUE
    /\ error_state = "none"
    /\ requests = {[id |-> 1, command |-> "get_git_history", game |-> 1]}
    /\ next_request = 2
    /\ confirm_answers = <<>>

\* What the component renders: the loading text, the Enable Git view or the
\* manager with its buttons.
View ==
    IF isLoading /\ gitHistory = NoGitHistory THEN "loading"
    ELSE IF ~gitEnabled THEN "not_enabled"
    ELSE "manager"

\* setIsLoading(true); setError(null); await invoke(command, { gameId }).
StartRequest(command, g) ==
    /\ next_request <= MaxRequests
    /\ requests' = requests \cup
                     {[id |-> next_request, command |-> command, game |-> g]}
    /\ next_request' = next_request + 1
    /\ isLoading' = TRUE
    /\ error_state' = "none"

\* A handler goes on to `await loadGitHistory()` with the game of its render.
ThenLoadGitHistory(r) ==
    /\ requests' = (requests \ {r}) \cup
                     {[id |-> r.id, command |-> "get_git_history",
                       game |-> r.game]}
    /\ isLoading' = TRUE
    /\ error_state' = "none"

\* The game prop changes: useEffect(() => { loadGitHistory(); }, [game.id]).
GameChanges(g) ==
    /\ g # game_prop
    /\ game_prop' = g
    /\ StartRequest("get_git_history", g)
    /\ UNCHANGED <<git_games, gitEnabled, gitHistory, confirm_answers>>
    /\ UNCHANGED notManagerVars

\* get_git_history settles: the history is stored, or Git is shown as not
\* enabled; finally setIsLoading(false).
HistorySettles(r) ==
    /\ r \in requests
    /\ r.command = "get_git_history"
    /\ requests' = requests \ {r}
    /\ IF r.game \in git_games
       THEN /\ gitHistory' = HistoryOf(r.game)
            /\ gitEnabled' = TRUE
            /\ UNCHANGED error_state
       ELSE /\ gitEnabled' = FALSE
            /\ error_state' = "Git is not enabled for this game"
            /\ UNCHANGED gitHistory
    /\ isLoading' = FALSE
    /\ UNCHANGED <<game_prop, git_games, next_request, confirm_answers>>
    /\ UNCHANGED notManagerVars

\* The Enable Git Versioning button.
enableGit ==
    /\ View = "not_enabled"
    /\ ~isLoading
    /\ StartRequest("enable_git_for_game", game_prop)
    /\ UNCHANGED <<game_prop, git_games, gitEnabled, gitHistory,
                   confirm_answers>>
    /\ UNCHANGED notManagerVars

EnableSettles(r, ok) ==
    /\ r \in requests
    /\ r.command = "enable_git_for_game"
    /\ IF ok
       THEN /\ git_games' = git_games \cup {r.game}
            /\ gitEnabled' = TRUE
            /\ ThenLoadGitHistory(r)
       ELSE /\ requests' = requests \ {r}
            /\ error_state' = "Failed to enable Git"
            /\ isLoading' = FALSE
            /\ UNCHANGED <<git_games, gitEnabled>>
    /\ UNCHANGED <<game_prop, gitHistory, next_request, confirm_answers>>
    /\ UNCHANGED notManagerVars

\* The Switch button of a branch.
switchBranch ==
    /\ View = "manager"
    /\ gitHistory # NoGitHistory
    /\ ~isLoading
    /\ StartRequest("switch_save_branch", game_prop)
    /\ UNCHANGED <<game_prop, git_games, gitEnabled, gitHistory,
                   confirm_answers>>
    /\ UNCHANGED notManagerVars

SwitchSettles(r, ok) ==
    /\ r \in requests
    /\ r.command = "switch_save_branch"
    /\ IF ok
       THEN ThenLoadGitHistory(r)
       ELSE /\ requests' = requests \ {r}
            /\ error_state' = "Failed to switch branch"
            /\ isLoading' = FALSE
    /\ UNCHANGED <<game_prop, git_games, gitEnabled, gitHistory,
                   next_request, confirm_answers>>
    /\ UNCHANGED notManagerVars

\* A restore that is sent whatever the user answers.
AnyAnswer(answer) == TRUE

\* if (!confirm('Are you sure ...')) { return; }
Confirmed(answer) == answer

\* The Restore button of a commit.
restoreToCommit(answer) ==
    /\ View = "manager"
    /\ gitHistory # NoGitHistory
    /\ ~isLoading
    /\ Len(confirm_answers) < MaxConfirms
    /\ confirm_answers' = Append(confirm_answers, answer)
    /\ IF Confirmed(answer)
       THEN StartRequest("restore_to_commit", game_prop)
       ELSE UNCHANGED <<requests, next_request, isLoading, error_state>>
    /\ UNCHANGED <<game_prop, git_games, gitEnabled, gitHistory>>
    /\ UNCHANGED notManagerVars

\* The Sync to Cloud button.
syncToCloud ==
    /\ View = "manager"
    /\ ~isLoading
    /\ StartRequest("sync_to_cloud", game_prop)
    /\ UNCHANGED <<game_prop, git_games, gitEnabled, gitHistory,
                   confirm_answers>>
    /\ UNCHANGED notManagerVars

\* restore_to_commit or sync_to_cloud settles: an alert, or the error;
\* finally setIsLoading(false).
CommandSettles(r, ok) ==
    /\ r \in requests
    /\ r.command \in {"restore_to_commit", "sync_to_cloud"}
    /\ requests' = requests \ {r}
    /\ error_state' =
          IF ok THEN error_state
          ELSE IF r.command = "restore_to_commit"
               THEN "Failed to restore to commit"
               ELSE "Failed to sync to cloud"
    /\ isLoading' = FALSE
    /\ UNCHANGED <<game_prop, git_games, gitEnabled, gitHistory,
                   next_request, confirm_answers>>
    /\ UNCHANGED notManagerVars

(***************************************************************************)
(* Error recovery: detect_changes_with_recovery retries the detection of   *)
(* a save path; handle_save_change backs up the change it reports.         *)
(***************************************************************************)
MaxAttempts == 6

\* let max_retries = 3;
max_retries == 3

\* enum HashDetectionError
HashDetectionErrors ==
    {"FileNotAccessible", "PermissionDenied", "FileSystemError",
     "HashCalculationFailed", "CacheCorruption", "FileLocked"}

\* classify_error(&error): I/O errors, permission denied and a file locked by
\* another process are retried; an inaccessible file needs the user.
classify_error(error) ==
    IF error \in {"PermissionDenied", "FileSystemError", "FileLocked"}
    THEN "Retryable"
    ELSE IF error = "FileNotAccessible" THEN "RequiresUserAction"
    ELSE "Permanent"

NotHandled == [backups |-> 0, result |-> "none", notified |-> FALSE]

InitRecovery ==
    /\ detection = "idle"
    /\ retry_count = 0
    /\ attempts = 0
    /\ slept = 0
    /\ last_error = "none"
    /\ handled = NotHandled

\* detect_changes_with_recovery(save_path) is called.
StartDetection ==
    /\ detection = "idle"
    /\ detection' = "running"
    /\ retry_count' = 0
    /\ UNCHANGED <<attempts, slept, last_error, handled>>
    /\ UNCHANGED notRecoveryVars

\* One iteration of the loop: attempt_change_detection(save_path) returns
\* Ok(changes) or an error.
AttemptDetection(outcome) ==
    /\ detection = "running"
    /\ attempts < MaxAttempts
    /\ attempts' = attempts + 1
    /\ IF outcome = "Ok"
       THEN /\ detection' = "Ok"
            /\ UNCHANGED <<retry_count, slept, last_error>>
       ELSE /\ last_error' = outcome
            /\ IF classify_error(outcome) = "Retryable"
               THEN /\ IF retry_count < max_retries
                       THEN /\ retry_count' = retry_count + 1
                            /\ slept' = slept + 100 * (retry_count + 1)
                       ELSE UNCHANGED <<retry_count, slept>>
                    /\ UNCHANGED detection
               ELSE /\ detection' =
                         IF classify_error(outcome) = "Permanent"
                         THEN "PermanentError" ELSE "UserActionRequired"
                    /\ UNCHANGED <<retry_count, slept>>
    /\ UNCHANGED handled
    /\ UNCHANGED notRecoveryVars

\* handle_save_change(change_event): should_backup_change decides, then
\* create_backup(&change_event).await? and the notification.
handle_save_change(should_backup, backup_ok, should_notify) ==
    /\ detection = "Ok"
    /\ handled.result = "none"
    /\ handled' =
          IF ~should_backup
          THEN [backups |-> 0, result |-> "Ok", notified |-> FALSE]
          ELSE IF backup_ok
               THEN [backups |-> 1, result |-> "Ok",
                     notified |-> should_notify]
               ELSE [backups |-> 1, result |-> "Err", notified |-> FALSE]
    /\ UNCHANGED <<detection, retry_count, attempts, slept, last_error>>
    /\ UNCHANGED notRecoveryVars

(***************************************************************************)
(* Hashing strategies: the hash of one file by each strategy of the        *)
(* HashCalculator, and the strategy the optimizer selects by file size.    *)
(* Sizes are scaled: one unit stands for the 64KB chunk.                   *)
(***************************************************************************)
MaxFileLen == 4

ByteValues == {0, 1}

\* chunk_size: usize, // 64KB chunks for processing
chunk_size == 2

\* rayon::current_num_threads()
num_threads == 2

\* size < 10 * 1024 * 1024: direct reading
DirectLimit == 2

\* size < 100 * 1024 * 1024: chunked processing
ChunkedLimit == 4

\* size < 1024 * 1024 * 1024: parallel processing
ParallelLimit == 8

Strategies == {"DirectRead", "Chunked", "Parallel", "MemoryMapped"}

\* self.hash_chunk(&buffer[..bytes_read]): the hash of the chunk's bytes.
hash_chunk(bytes) == HashUpdate(7, bytes)

\* self.hash_combined(&chunk_hashes): the hash of the hashes, in order.
hash_combined(hashes) == HashUpdate(7, hashes)

\* The chunks file.read(&mut buffer) returns: chunk_size bytes each, the last
\* one what is left.
RECURSIVE ChunkHashes(_)
ChunkHashes(bytes) ==
    IF bytes = <<>> THEN <<>>
    ELSE IF Len(bytes) <= chunk_size THEN <<hash_chunk(bytes)>>
    ELSE <<hash_chunk(SubSeq(bytes, 1, chunk_size))>>
            \o ChunkHashes(SubSeq(bytes, chunk_size + 1, Len(bytes)))

\* calculate_chunked_hash(file_path).overall_hash
calculate_chunked_hash(bytes) == hash_combined(ChunkHashes(bytes))

\* hash_file_section(file_path, start, end) of thread thread_index.
SectionHash(bytes, thread_index) ==
    LET section_size == Len(bytes) \div num_threads
        start == thread_index * section_size
        end == IF thread_index = num_threads - 1 THEN Len(bytes)
               ELSE start + section_size
    IN  hash_chunk(SubSeq(bytes, start + 1, end))

\* calculate_parallel_hash(file_path)
calculate_parallel_hash(bytes) ==
    hash_combined([i \in 1..num_threads |-> SectionHash(bytes, i - 1)])

\* optimize_hash_calculation(file_path): the strategy by size tier.
optimize_hash_calculation(file_size) ==
    IF file_size < DirectLimit THEN "DirectRead"
    ELSE IF file_size < ChunkedLimit THEN "Chunked"
    ELSE IF file_size < ParallelLimit THEN "Parallel"
    ELSE "MemoryMapped"

\* The hash a strategy returns for the file; a memory-mapped file is hashed
\* as a whole.
HashBy(s, bytes) ==
    IF s = "Chunked" THEN calculate_chunked_hash(bytes)
    ELSE IF s = "Parallel" THEN calculate_parallel_hash(bytes)
    ELSE calculate_file_hash(bytes)

InitHashIdle ==
    /\ hashed_file = <<>>
    /\ strategy = "none"
    /\ fingerprints = [s \in Strategies |-> NoHash]

InitHash ==
    /\ hashed_file \in SeqsUpTo(ByteValues, MaxFileLen)
    /\ strategy = "none"
    /\ fingerprints = [s \in Strategies |-> NoHash]

\* The optimizer selects the strategy for the file.
SelectStrategy ==
    /\ strategy = "none"
    /\ strategy' = optimize_hash_calculation(Len(hashed_file))
    /\ UNCHANGED <<hashed_file, fingerprints>>
    /\ UNCHANGED notHashVars

\* The file is hashed by strategy s.
CalculateHash(s) ==
    /\ fingerprints[s] = NoHash
    /\ fingerprints' = [fingerprints EXCEPT ![s] = HashBy(s, hashed_file)]
    /\ UNCHANGED <<hashed_file, strategy>>
    /\ UNCHANGED notHashVars

(***************************************************************************)
(* The specifications.                                                     *)
(***************************************************************************)
Init ==
    /\ InitRepo /\ InitNameIdle /\ InitDetect /\ InitDebounce
    /\ InitHashIdle /\ InitHistory /\ InitOpened /\ InitRecovery
    /\ InitDeadline /\ InitFence
    /\ InitRate
    /\ InitWatch
    /\ InitRewatch
    /\ InitSuspend
    /\ InitAnalysis
    /\ InitLock
    /\ InitDialog
    /\ InitManager

\* Checkpoints, switches and restores by the two callers, while the games
\* write their saves.
Next ==
    \/ \E g \in Games, bytes \in Contents : FileEdit(g, bytes)
    \/ \E c \in Callers : Return(c)
    \/ \E c \in Callers, g \in Games : \E s \in SaveNamesOf(g) :
            CheckpointBranch(c, g, s)
    \/ \E c \in Callers : CheckpointCommit(c)
    \/ \E c \in Callers : CheckpointSave(c)
    \/ \E c \in UiCallers, g \in Games : \E b \in BranchNamesOf(g) :
            SwitchCheckout(c, g, b)
    \/ \E c \in UiCallers : SwitchSetHead(c)
    \/ \E c \in UiCallers : SwitchSave(c)
    \/ \E c \in UiCallers, g \in Games, h \in 1..MaxCommits, k \in BOOLEAN :
            RestoreFind(c, g, h, k)
    \/ \E c \in UiCallers : RestoreCheckout(c)

Spec == Init /\ [][Next]_vars

\* The commands that write the git_branches table: checkpoints by the two
\* callers, named branches and switches from the UI.
NextBranches ==
    \/ \E g \in Games, bytes \in Contents : FileEdit(g, bytes)
    \/ \E c \in Callers : Return(c)
    \/ \E c \in Callers, g \in Games : \E s \in SaveNamesOf(g) :
            CheckpointBranch(c, g, s)
    \/ \E c \in Callers : CheckpointCommit(c)
    \/ \E c \in Callers : CheckpointSave(c)
    \/ \E c \in UiCallers, g \in Games : \E b \in BranchNamesOf(g) :
            CreateBranchGit(c, g, b)
    \/ \E c \in UiCallers : CreateBranchSave(c)
    \/ \E c \in UiCallers, g \in Games : \E b \in BranchNamesOf(g) :
            SwitchCheckout(c, g, b)
    \/ \E c \in UiCallers : SwitchSetHead(c)
    \/ \E c \in UiCallers : SwitchSave(c)

SpecBranches == Init /\ [][NextBranches]_vars

NextDetect ==
    \/ detect_changes
    \/ \E bytes \in FileContents : WriteSave(bytes)
    \/ TouchSave
    \/ ClockTick

SpecDetect == Init /\ [][NextDetect]_vars

NextDebounce ==
    \/ \E p \in WatchedPaths : ChangeArrives(p)
    \/ \E p \in WatchedPaths : WindowCloses(p)
    \/ TimePasses

SpecDebounce == Init /\ [][NextDebounce]_vars

\* The UI checkpoints and switches, and loads the history of a game.
NextHistory ==
    \/ \E c \in UiCallers : Return(c)
    \/ \E c \in UiCallers, g \in Games : \E s \in SaveNamesOf(g) :
            CheckpointBranch(c, g, s)
    \/ \E c \in UiCallers : CheckpointCommit(c)
    \/ \E c \in UiCallers : CheckpointSave(c)
    \/ \E c \in UiCallers, g \in Games : \E b \in BranchNamesOf(g) :
            SwitchCheckout(c, g, b)
    \/ \E c \in UiCallers : SwitchSetHead(c)
    \/ \E c \in UiCallers : SwitchSave(c)
    \/ \E g \in Games : LoadGitHistory(g)

SpecHistory == Init /\ [][NextHistory]_vars

\* From a new installation: the repository is opened at every start of the
\* application; between the opens the UI checkpoints and switches.
InitOpenSpec ==
    /\ InitNoRepo /\ InitNameIdle /\ InitDetect /\ InitDebounce
    /\ InitHashIdle /\ InitHistory /\ InitRecovery /\ InitDeadline
    /\ InitFence
    /\ InitRate
    /\ InitWatch
    /\ InitRewatch
    /\ InitSuspend
    /\ InitAnalysis
    /\ InitLock
    /\ InitDialog
    /\ InitManager

NextOpen ==
    \/ initialize_master_repo
    \/ \E g \in Games, bytes \in Contents : repo_initialized /\ FileEdit(g, bytes)
    \/ \E c \in UiCallers : Return(c)
    \/ \E c \in UiCallers, g \in Games : \E s \in SaveNamesOf(g) :
            repo_initialized /\ CheckpointBranch(c, g, s)
    \/ \E c \in UiCallers : CheckpointCommit(c)
    \/ \E c \in UiCallers : CheckpointSave(c)
    \/ \E c \in UiCallers, g \in Games : \E b \in BranchNamesOf(g) :
            repo_initialized /\ SwitchCheckout(c, g, b)
    \/ \E c \in UiCallers : SwitchSetHead(c)
    \/ \E c \in UiCallers : SwitchSave(c)

SpecOpen == InitOpenSpec /\ [][NextOpen]_vars

InitNameSpec ==
    /\ InitName /\ InitRepo /\ InitDetect /\ InitDebounce
    /\ InitHashIdle /\ InitHistory /\ InitOpened /\ InitRecovery
    /\ InitDeadline /\ InitFence
    /\ InitRate
    /\ InitWatch
    /\ InitRewatch
    /\ InitSuspend
    /\ InitAnalysis
    /\ InitLock
    /\ InitDialog
    /\ InitManager

InitHashSpec ==
    /\ InitNameIdle /\ InitRepo /\ InitDetect /\ InitDebounce
    /\ InitHash /\ InitHistory /\ InitOpened /\ InitRecovery
    /\ InitDeadline /\ InitFence
    /\ InitRate
    /\ InitWatch
    /\ InitRewatch
    /\ InitSuspend
    /\ InitAnalysis
    /\ InitLock
    /\ InitDialog
    /\ InitManager

\* One operation at a time, each under its deadline; the games write their
\* saves between the operations.
NextDeadline ==
    \/ \E g \in Games, bytes \in Contents : AllIdle /\ FileEdit(g, bytes)
    \/ ArmDeadline
    \/ DeadlineTick
    \/ \E c \in UiCallers : TimeOut(c)
    \/ \E c \in UiCallers : Return(c)
    \/ \E c \in UiCallers, g \in Games : \E s \in SaveNamesOf(g) :
            Armed /\ CheckpointBranch(c, g, s)
    \/ \E c \in UiCallers : InTime /\ CheckpointCommit(c)
    \/ \E c \in UiCallers : InTime /\ CheckpointSave(c)
    \/ \E c \in UiCallers, g \in Games, h \in 1..MaxCommits, k \in BOOLEAN :
            Armed /\ RestoreFind(c, g, h, k)
    \/ \E c \in UiCallers : InTime /\ RestoreCheckout(c)

SpecDeadline == Init /\ [][NextDeadline]_vars

\* The change-event handler checkpoints the games whose events were
\* dispatched, while games write their saves and are removed from monitoring.
NextFence ==
    \/ \E g \in Games, bytes \in Contents : FileEdit(g, bytes)
    \/ \E g \in Games : AcceptEvent(g)
    \/ \E g \in Games : DispatchEvent(g)
    \/ \E g \in Games : CompleteEvent(g)
    \/ \E g \in Games : RemoveGame(g)
    \/ \E g \in Games : \E s \in SaveNamesOf(g) :
            events[g] = "dispatched" /\ CheckpointBranch(Handler, g, s)
    \/ CheckpointCommit(Handler)
    \/ CheckpointSave(Handler)
    \/ (\A g \in Games : events[g] # "dispatched") /\ Return(Handler)

SpecFence == Init /\ [][NextFence]_vars

\* Significant changes of the games reach the backup-trigger policy as time
\* passes.
NextRate ==
    \/ \E g \in Games : SignificantChange(g)
    \/ TriggerClockTick

SpecRate == Init /\ [][NextRate]_vars

\* The watcher of one directory on one of the platforms, while the
\* filesystem changes the watched paths.
NextWatch ==
    \/ \E b \in Backends : WatchDirectory(b)
    \/ \E p \in WatchedPaths, kind \in FsEventKinds : FsChange(p, kind)
    \/ LinuxRead
    \/ LinuxHandle
    \/ MacSend
    \/ MacRecv
    \/ WindowsMonitor
    \/ WatchFails

SpecWatch == Init /\ [][NextWatch]_vars

\* The Linux watcher while the watched directory is changed, deleted and
\* recreated; the watcher's loop keeps running.
NextRewatch ==
    \/ WatchDirectory("linux")
    \/ \E p \in WatchedPaths, kind \in FsEventKinds : WatchedChange(p, kind)
    \/ \E p \in WatchedPaths, kind \in FsEventKinds : UnwatchedChange(p, kind)
    \/ DeleteDirectory
    \/ RecreateDirectory
    \/ LinuxRead
    \/ LinuxHandle

\* The change events of the games are handled one after the other; the
\* repository may report corruption to any create_backup.
NextSuspend ==
    \/ \E g \in Games, should_backup \in BOOLEAN,
          backup_result \in BackupResults, should_notify \in BOOLEAN :
            HandleChangeOfGame(g, should_backup, backup_result, should_notify)
    \/ \E g \in Games : ReEnableMonitoring(g)

SpecSuspend == Init /\ [][NextSuspend]_vars

\* detect_changes is called again and again while the game creates,
\* rewrites and deletes the save file.
NextAnalysis ==
    \/ AnalyzeChanges
    \/ \E bytes \in FileContents : WriteSaveFile(bytes)
    \/ DeleteSaveFile
    \/ FsTimeTick

SpecAnalysis == Init /\ [][NextAnalysis]_vars

\* The commands of the two callers around the database mutex.
NextLock ==
    \/ \E c \in Callers : \E kind \in LockCommandsOf(c) : LockInvoke(c, kind)
    \/ \E c \in Callers : DbAcquire(c)
    \/ \E c \in Callers, found \in BOOLEAN : DbQuery(c, found)
    \/ \E c \in Callers, ok \in BOOLEAN : LockGitSteps(c, ok)
    \/ \E c \in Callers, ok \in BOOLEAN : DbSave(c, ok)
    \/ \E c \in Callers : LockTimeout(c)
    \/ \E c \in Callers : LockReturn(c)

SpecLock == Init /\ [][NextLock]_vars

\* The tasks of the callers are scheduled fairly: a caller that can take its
\* next step takes it. Neither an invocation nor a deadline has to happen.
SpecLockFair ==
    /\ Init
    /\ [][NextLock]_vars
    /\ \A c \in Callers : WF_vars(LockStep(c))

\* The Create Checkpoint dialog, used for up to MaxCheckpointCalls calls.
NextDialog ==
    \/ OpenCheckpointDialog
    \/ \E name \in DialogNames : EnterSaveName(name)
    \/ \E description \in DialogDescriptions : EnterDescription(description)
    \/ CancelCheckpoint
    \/ ClickCreateCheckpoint
    \/ \E ok \in BOOLEAN : CheckpointSettles(ok)

SpecDialog == Init /\ [][NextDialog]_vars

\* The GitSaveManager of a card whose game prop changes, for up to
\* MaxRequests calls.
NextManager ==
    \/ \E g \in Games : GameChanges(g)
    \/ \E r \in requests : HistorySettles(r)
    \/ enableGit
    \/ \E r \in requests, ok \in BOOLEAN : EnableSettles(r, ok)
    \/ switchBranch
    \/ \E r \in requests, ok \in BOOLEAN : SwitchSettles(r, ok)
    \/ \E answer \in BOOLEAN : restoreToCommit(answer)
    \/ syncToCloud
    \/ \E r \in requests, ok \in BOOLEAN : CommandSettles(r, ok)

SpecManager == Init /\ [][NextManager]_vars

SpecRewatch ==
    /\ Init
    /\ [][NextRewatch]_vars
    /\ WF_vars(LinuxRead)
    /\ WF_vars(LinuxHandle)

NextRecovery ==
    \/ StartDetection
    \/ \E outcome \in {"Ok"} \cup HashDetectionErrors :
            AttemptDetection(outcome)
    \/ \E should_backup \in BOOLEAN, backup_ok \in BOOLEAN,
          should_notify \in BOOLEAN :
            handle_save_change(should_backup, backup_ok, should_notify)

SpecRecovery == Init /\ [][NextRecovery]_vars

NextHash ==
    \/ SelectStrategy
    \/ \E s \in Strategies : CalculateHash(s)

SpecHash == InitHashSpec /\ [][NextHash]_vars

NextName == BuildBranchName

SpecName == InitNameSpec /\ [][NextName]_vars

(***************************************************************************)
(* Properties of the repository operations.                                *)
(***************************************************************************)
\* The steps at which a command has begun to change the working tree or HEAD
\* and has not yet finished: a checkpoint between its checkout and its commit,
\* a switch between its checkout and setting HEAD.
MutationPhase == {"ck_commit", "sw_head"}

\* C1: in every reachable state at most one mutating repository operation is
\* inside its working-tree mutation phase, whatever games the callers act for.
C1_OneMutationAtATime ==
    Cardinality({c \in Callers : pc[c] \in MutationPhase}) <= 1

C3_UnconfirmedRestoreRefused ==
    [][\A c \in Callers :
          (pc'[c] # pc[c] /\ op'[c].kind = "restore" /\ ~op'[c].confirmed)
              => /\ op'[c].status = "ConfirmationRequired"
                 /\ UNCHANGED <<refs, commits, head, worktree, git_branches>>]_vars

\* The tip of the branch of caller c's checkpoint is a checkpoint commit of
\* the same game on that branch: the call is not the first for its
\* (game, save name).
SecondCheckpoint(c) ==
    /\ op[c].kind = "checkpoint"
    /\ op[c].branch \in DOMAIN refs
    /\ commits[refs[op[c].branch]].branch = op[c].branch
    /\ commits[refs[op[c].branch]].game = op[c].game

\* C4: a second create_checkpoint with the same (game, save_name) leaves the
\* set of branches unchanged and adds one new commit, on that branch, whose
\* parent is the branch's previous tip.
C4_SecondCheckpointCommitsOnBranch ==
    [][\A c \in Callers :
          (pc[c] = "ck_commit" /\ pc'[c] = "ck_db" /\ SecondCheckpoint(c))
              => /\ DOMAIN refs' = DOMAIN refs
                 /\ Len(commits') = Len(commits) + 1
                 /\ commits'[Len(commits')].parent = refs[op[c].branch]
                 /\ refs'[op[c].branch] = Len(commits')]_vars

\* C31: a create_checkpoint whose branch does not exist forks the branch from
\* the tip of the checked-out branch and checks it out; the first commit on
\* the branch has the fork point as its parent and becomes its tip; and when
\* the checkpoint ends the new branch is the checked-out branch and the
\* game's active branch.
C31_NewBranchForkedFromHead ==
    [][\A c \in Callers :
          LET b == op'[c].branch
          IN  /\ (/\ pc[c] = "idle" /\ pc'[c] = "ck_commit"
                  /\ b \notin DOMAIN refs)
                    => refs'[b] = refs[head] /\ head' = b
              /\ (/\ pc[c] = "ck_commit" /\ pc'[c] = "ck_db"
                  /\ commits[refs[b]].branch # b)
                    => /\ commits'[Len(commits')].parent = refs[b]
                       /\ commits'[Len(commits')].branch = b
                       /\ refs'[b] = Len(commits')
              /\ (pc[c] = "ck_db" /\ pc'[c] = "done")
                    => /\ head' = b
                       /\ Row(op[c].game, b, TRUE) \in git_branches']_vars

\* C32: when a create_checkpoint, create_branch or switch_branch ends with
\* success, the branch is recorded for the game of the call and for no other
\* game, the tip of a checkpointed branch is a commit recorded on that branch
\* for that game, and the active branch recorded for the game is the branch
\* that is checked out.
C32_MetadataAgrees ==
    [][\A c \in Callers :
          (/\ pc[c] # "done" /\ pc'[c] = "done"
           /\ op'[c].status = "ok"
           /\ op'[c].kind \in {"checkpoint", "create_branch", "switch"})
              => LET g == op'[c].game
                     b == op'[c].branch
                 IN  /\ \E r \in git_branches' :
                           r.game_id = g /\ r.branch_name = b
                     /\ \A r \in git_branches' :
                           r.branch_name = b => r.game_id = g
                     /\ op'[c].kind = "checkpoint"
                           => /\ commits'[refs'[b]].branch = b
                              /\ commits'[refs'[b]].game = g
                     /\ {r.branch_name : r \in {x \in git_branches' :
                                x.game_id = g /\ x.is_active}} = {head'}]_vars

\* C33: the branch step of create_checkpoint leaves the game's save files in
\* the working tree as they were when the command was called, and the commit
\* step records the game's save files as the working tree holds them.
C33_CommitRecordsCallTimeFiles ==
    [][\A c \in Callers :
          LET g == op'[c].game
          IN  /\ (pc[c] = "idle" /\ pc'[c] = "ck_commit")
                    => worktree'[g] = worktree[g]
              /\ (pc[c] = "ck_commit" /\ pc'[c] = "ck_db")
                    => commits'[Len(commits')].tree[g] = worktree[g]]_vars

\* C34: every checkpoint commit of a game is on a branch named for that game
\* and recorded for no other game.
C34_CommitOnBranchOfItsGame ==
    \A i \in 2..Len(commits) :
        /\ commits[i].branch \in BranchNamesOf(commits[i].game)
        /\ \A r \in git_branches :
              r.branch_name = commits[i].branch => r.game_id = commits[i].game

\* C7: no branch name is associated with two different games.
C7_BranchHasOneOwner ==
    \A r1 \in git_branches, r2 \in git_branches :
        r1.branch_name = r2.branch_name => r1.game_id = r2.game_id

\* C10: after a confirmed restore_to_commit(game, C) succeeds, re-hashing the
\* game's restored save files gives the fingerprint recorded when C was
\* created.
C10_RestoreRoundTrip ==
    [][\A c \in Callers :
          (pc[c] = "rs_checkout" /\ pc'[c] = "done" /\ op'[c].status = "ok"
             /\ op[c].confirmed)
              => calculate_file_hash(worktree'[op[c].game])
                   = commits[op[c].commit].content_hash]_vars

\* A confirmed restore of a commit that is not the checked-out tip, and whose
\* files differ from the tip's, has succeeded and the files hash to the
\* commit's fingerprint.
C10_Witness ==
    \E c \in Callers :
        /\ pc[c] = "done" /\ op[c].kind = "restore" /\ op[c].status = "ok"
        /\ op[c].confirmed
        /\ op[c].commit # refs[head]
        /\ TreeOf(op[c].commit)[op[c].game] # TreeOf(refs[head])[op[c].game]
        /\ calculate_file_hash(worktree[op[c].game])
             = commits[op[c].commit].content_hash

\* Branch b exists for game g: the repository has a branch of that name and
\* it is a branch of g (recorded for g, or being created by a command of g
\* that has not yet written its row).
ExistsForGame(g, b) ==
    /\ b \in DOMAIN refs
    /\ \/ \E r \in git_branches : r.game_id = g /\ r.branch_name = b
       \/ \E c \in Callers : op[c].game = g /\ op[c].branch = b
                                /\ op[c].kind = "checkpoint"

\* C12: switch_branch fails with BranchNotFound when the named branch does
\* not exist for the game and with DirtyWorkingTree when the switch would
\* discard uncommitted changes; in both cases the checked-out branch, the
\* active branches and the working tree are unchanged.
C12_SwitchFailures ==
    [][\A c \in Callers :
          (pc[c] = "idle" /\ pc'[c] # "idle" /\ op'[c].kind = "switch")
              => /\ ~ExistsForGame(op'[c].game, op'[c].branch)
                       => op'[c].status = "BranchNotFound"
                 /\ (/\ op'[c].branch \in DOMAIN refs
                     /\ Conflicts(TreeOf(refs[head]),
                                  TreeOf(refs[op'[c].branch])) # {})
                       => op'[c].status \in {"BranchNotFound",
                                             "DirtyWorkingTree"}
                 /\ op'[c].status \in {"BranchNotFound", "DirtyWorkingTree"}
                       => UNCHANGED <<head, git_branches, worktree>>]_vars

\* Commit a is commit d or one of its ancestors, in the commits cs.
RECURSIVE IsAncestor(_, _, _)
IsAncestor(a, d, cs) ==
    \/ a = d
    \/ d # 0 /\ IsAncestor(a, cs[d].parent, cs)

\* C26: a commit never changes once created and none is removed; every commit
\* has one parent, created before it, or none; and the history of every
\* branch only grows: the tip a branch had stays in the history of its tip.
C26_CommitsImmutableLinear ==
    [][/\ Len(commits') >= Len(commits)
       /\ \A i \in 1..Len(commits) : commits'[i] = commits[i]
       /\ \A i \in 1..Len(commits') : commits'[i].parent \in 0..(i - 1)
       /\ \A b \in DOMAIN refs :
             /\ b \in DOMAIN refs'
             /\ IsAncestor(refs[b], refs'[b], commits')]_vars

\* A branch holds two checkpoint commits, one on top of the other, and a
\* restore of a commit has succeeded.
C26_Witness ==
    /\ \E i \in 1..Len(commits) :
          /\ commits[i].parent # 0
          /\ commits[i].branch # MainBranch
          /\ commits[commits[i].parent].branch = commits[i].branch
    /\ \E c \in Callers :
          /\ pc[c] = "done"
          /\ op[c].kind = "restore"
          /\ op[c].status = "ok"

\* The errors that are for the user to handle.
StructuralErrors ==
    {"BranchNotFound", "CommitNotFound", "DirtyWorkingTree",
     "ConfirmationRequired"}

InProgress(c) == pc[c] \notin {"idle", "done"}

\* C15: a caller that requests a mutating operation while another operation
\* is in progress on the repository gets RepositoryBusy, and the rejected call
\* changes nothing in the repository, the working tree or the metadata.
C15_BusyRejected ==
    [][\A c \in Callers :
          (/\ pc[c] = "idle" /\ pc'[c] # "idle"
           /\ \E d \in Callers \ {c} : InProgress(d))
              => /\ op'[c].status = "RepositoryBusy"
                 /\ UNCHANGED <<refs, commits, head, worktree,
                                git_branches>>]_vars

\* C16: a create_checkpoint for a game never runs while another
\* create_checkpoint for the same game is still running.
C16_CheckpointsOfGameSequential ==
    \A c \in Callers, d \in Callers :
        (/\ c # d
         /\ InProgress(c) /\ op[c].kind = "checkpoint"
         /\ InProgress(d) /\ op[d].kind = "checkpoint")
            => op[c].game # op[d].game

\* C14: open_or_create on a root that is already initialized returns the
\* existing repository and changes nothing: branches, commits, checked-out
\* branch, attribute configuration, working tree and metadata stay as they
\* are.
C14_OpenIdempotent ==
    [][(opened' # opened /\ repo_initialized)
          => UNCHANGED <<refs, commits, head, attributes, worktree,
                         git_branches, repo_initialized>>]_vars

\* The repository was opened again after checkpoints had added commits and
\* moved HEAD, and it still holds them.
C14_Witness ==
    /\ opened.calls >= 2
    /\ opened.found >= 2
    /\ Len(commits) = opened.found
    /\ head # MainBranch
    /\ attributes = LfsAttributes

\* C13: get_history(game) returns every commit made on the branches owned by
\* the game and no commit of another game, newest first, with the game's
\* branches and the checked-out branch, and it changes no repository or
\* metadata state.
C13_HistoryOfGame ==
    [][history' # history =>
          LET h == history'
          IN  /\ \A i \in CommitsOnBranchesOf(h.game) :
                     \E k \in 1..Len(h.commits) : h.commits[k] = i
              /\ \A k \in 1..Len(h.commits) :
                     commits[h.commits[k]].game = h.game
              /\ \A k \in 1..Len(h.commits) - 1 :
                     h.commits[k] > h.commits[k + 1]
              /\ h.branches = BranchesOf(h.game)
              /\ h.current_branch = head
              /\ UNCHANGED repoVars]_vars

\* C37: two checkpoints sent from the dialog for the same game with the same
\* Save Name are called for the same branch, whatever their descriptions.
C37_SameSaveNameSameBranch ==
    \A i \in 1..Len(checkpoint_calls), j \in 1..Len(checkpoint_calls) :
        (/\ checkpoint_calls[i].game = checkpoint_calls[j].game
         /\ checkpoint_calls[i].save = checkpoint_calls[j].save)
            => checkpoint_calls[i].branch = checkpoint_calls[j].branch

\* C38: while a call of the component has not settled, isLoading is TRUE.
C38_LoadingWhilePending ==
    requests # {} => isLoading

\* C39: once every call has settled, the component shows Git as enabled
\* exactly when it is enabled for the game of the prop, and the history it
\* shows is that game's.
C39_SettledShowsCurrentGame ==
    requests = {} =>
        /\ gitEnabled = (game_prop \in git_games)
        /\ gitEnabled => gitHistory = HistoryOf(game_prop)

\* C40: restore_to_commit is sent only in the step in which the user
\* accepted the confirmation, and a declined confirmation leaves the calls,
\* isLoading, the error and the history as they were.
C40_RestoreOnlyWhenConfirmed ==
    [][LET asked == confirm_answers' # confirm_answers
           accepted == confirm_answers'[Len(confirm_answers')]
           sent == {r \in requests' \ requests :
                        r.command = "restore_to_commit"}
       IN  /\ sent # {} => asked /\ accepted
           /\ (asked /\ ~accepted)
                 => UNCHANGED <<requests, isLoading, error_state,
                                gitHistory, gitEnabled>>]_vars

\* The user declined a confirmation and accepted another; the accepted
\* restore is pending.
C40_Witness ==
    /\ \E i \in 1..Len(confirm_answers) : ~confirm_answers[i]
    /\ \E i \in 1..Len(confirm_answers) : confirm_answers[i]
    /\ \E r \in requests : r.command = "restore_to_commit"

C8_BurstOneTrigger ==
    \A i \in 1..Len(delivered) :
        LET d == delivered[i]
        IN  /\ d.count >= 1
            /\ d.event = d.latest
            /\ d.last < d.first + min_change_interval
            /\ \A j \in 1..Len(delivered) :
                   (j # i /\ delivered[j].path = d.path)
                       => \/ delivered[j].first >= d.first + min_change_interval
                          \/ d.first >= delivered[j].first + min_change_interval

\* Ten modifications of one file within two seconds were handed to policy as
\* one event, the last of the ten.
C8_Witness ==
    \E i \in 1..Len(delivered) :
        /\ delivered[i].count = 10
        /\ delivered[i].last - delivered[i].first <= 2
        /\ delivered[i].event = 10
        /\ Len(delivered) = 1

\* C9: for a file whose bytes have not changed between two detection runs,
\* the fingerprint of the second run equals the fingerprint of the first and
\* the second run emits no ChangeEvent.
C9_UnchangedFileNoEvent ==
    (run.count >= 2 /\ run.unchanged)
        => (run.hash = run.prior /\ run.event = "none")

\* The recorded size and modification time of the cache entry equal those of
\* the file.
MetadataMatches ==
    /\ cache # NoEntry
    /\ cache.file_size = Len(file.bytes)
    /\ cache.last_modified = file.modified

\* C27: a detection run that finds a cache entry whose size and modification
\* time equal the file's computes no hash (the entry stays as it is) and
\* emits no event; a run that finds either different, or no entry, computes
\* the fingerprint of the file's bytes.
C27_CacheHitSkipsHashing ==
    [][run'.count = run.count + 1
          => IF MetadataMatches
             THEN cache' = cache /\ run'.event = "none"
             ELSE run'.hash = calculate_file_hash(file.bytes)]_vars

\* C27, with the expiry of the entry: a run that finds an entry of equal size
\* and modification time, younger than cache_ttl, computes no hash and emits
\* no event; any other run computes the fingerprint of the file's bytes.
C27_FreshEntrySkipsHashing ==
    [][run'.count = run.count + 1
          => IF MetadataMatches /\ clock - cache.cached_at < cache_ttl
             THEN cache' = cache /\ run'.event = "none"
             ELSE run'.hash = calculate_file_hash(file.bytes)]_vars

\* The latest run, after a write of the file, took the fingerprint from the
\* cache: it is not the fingerprint of the bytes, and no event was emitted.
C27_Witness ==
    /\ run.count >= 2
    /\ ~run.unchanged
    /\ ~run.edited
    /\ run.event = "none"
    /\ run.hash # calculate_file_hash(file.bytes)

SizeDiffers ==
    \/ previous_state.present # current_state.present
    \/ previous_state.size # current_state.size

TimeDiffers ==
    \/ previous_state.present # current_state.present
    \/ previous_state.modified # current_state.modified

\* C29: every emitted event has one of the three confidence levels: High
\* when size and modification time both differ from the prior record besides
\* the fingerprint, Medium when exactly one of them does, Low when only the
\* fingerprint differs.
C29_ConfidenceLevels ==
    [][analyses' = analyses + 1
          => \A i \in 1..Len(changes') :
                changes'[i].confidence =
                    IF SizeDiffers /\ TimeDiffers THEN "High"
                    ELSE IF SizeDiffers \/ TimeDiffers THEN "Medium"
                    ELSE "Low"]_vars

\* C30: a run that computes a fresh fingerprint (it found no entry of equal
\* size and modification time younger than cache_ttl) leaves a cache entry
\* that holds this fingerprint with the file's size and modification time,
\* whatever event the run emitted.
C30_FreshFingerprintCached ==
    [][(/\ run'.count = run.count + 1
        /\ ~(MetadataMatches /\ clock - cache.cached_at < cache_ttl))
          => /\ cache'.hash = calculate_file_hash(file.bytes)
             /\ cache'.hash = run'.hash
             /\ cache'.file_size = Len(file.bytes)
             /\ cache'.last_modified = file.modified]_vars

\* The latest run computed a fingerprint other than the previous one, and
\* the cache entry holds it with the size and modification time of the file.
C30_Witness ==
    /\ run.event = "FileModified"
    /\ ~run.edited
    /\ cache.hash = run.hash
    /\ cache.file_size = Len(file.bytes)
    /\ cache.last_modified = file.modified

\* C11: for the same file bytes the direct, chunked and parallel strategies
\* return the same fingerprint, and the strategy the size tier selects returns
\* the fingerprint of the direct full read.
C11_StrategyIndependent ==
    /\ \A s1 \in Strategies, s2 \in Strategies :
           (fingerprints[s1] # NoHash /\ fingerprints[s2] # NoHash)
               => fingerprints[s1] = fingerprints[s2]
    /\ (strategy # "none" /\ fingerprints[strategy] # NoHash)
           => fingerprints[strategy] = calculate_file_hash(hashed_file)

C22_TriggersRateLimited ==
    /\ \A i \in 1..Len(triggers), j \in 1..Len(triggers) :
          (i < j /\ triggers[i].game = triggers[j].game)
              => triggers[j].at - triggers[i].at >= maximum_backup_frequency
    /\ \A d \in rate_limited :
          \E i \in 1..Len(triggers) :
              /\ triggers[i].game = d[1]
              /\ triggers[i].at <= d[2]
              /\ d[2] - triggers[i].at < maximum_backup_frequency

\* A change of one game was dropped by the rate limit and, at the same time,
\* a change of the other game triggered its checkpoint.
C22_Witness ==
    \E d \in rate_limited :
        \E i \in 1..Len(triggers) :
            /\ triggers[i].game # d[1]
            /\ triggers[i].at = d[2]
            /\ \E j \in 1..Len(triggers) :
                  triggers[j].game = d[1] /\ triggers[j].at < d[2]

\* C23: the events of one path reach the change detector in the order in
\* which the filesystem applied their changes, on every backend.
C23_PerPathOrder ==
    \A i \in 1..Len(handled_events), j \in 1..Len(handled_events) :
        (i < j /\ handled_events[i].path = handled_events[j].path)
            => handled_events[i].applied < handled_events[j].applied

\* Two events of one path were delivered, with an event of another path
\* between them.
C23_Witness ==
    /\ Len(handled_events) >= 3
    /\ handled_events[1].path = handled_events[3].path
    /\ handled_events[1].path # handled_events[2].path

\* C24: after the watched directory was deleted and recreated, a change made
\* under the recreated directory is eventually reported, without a new call
\* of watch.
C24_RecreatedDirectoryReported ==
    \A n \in 1..MaxFsChanges :
        (n \in changes_after_recreate)
            ~> (\E i \in 1..Len(handled_events) :
                    handled_events[i].applied = n)

\* C25: once a fatal repository error was raised for a game, no checkpoint is
\* triggered for that game until it is re-enabled, and the changes of a game
\* with no such error still trigger their checkpoints.
C25_FatalErrorSuspendsGame ==
    [][changes_handled' = changes_handled + 1
          => /\ last_change'.game \in fatal_raised
                    => ~last_change'.triggered
             /\ (/\ last_change'.game \notin fatal_raised
                 /\ last_change'.should_backup)
                    => last_change'.triggered]_vars

\* The operation of caller c has been applied in full.
FullyApplied(c) ==
    IF op[c].kind = "checkpoint"
    THEN /\ head = op[c].branch
         /\ op[c].branch \in DOMAIN refs
         /\ Len(commits) = Len(snapshot.commits) + 1
         /\ refs[op[c].branch] = Len(commits)
         /\ Row(op[c].game, op[c].branch, TRUE) \in git_branches
    ELSE worktree = TreeOf(op[c].commit)

C19_CheckpointRetried ==
    handled.result = "Err"
        => (handled.backups >= 2 /\ handled.backups <= max_retries + 1)

\* C20: when hashing keeps failing with a retryable error, change detection
\* retries at most max_retries times and then returns to the caller: there
\* are never more than max_retries + 1 attempts, and after the last one the
\* loop has ended.
C20_BoundedRetries ==
    /\ attempts <= max_retries + 1
    /\ attempts = max_retries + 1 => detection # "running"

(***************************************************************************)
(* Properties of the branch name.                                          *)
(***************************************************************************)
\* C5: derive_branch_name returns a name of alphanumeric characters, dashes
\* and underscores only, no longer than 255 characters, and
\* ("Skyrim", "Main Quest - Dragonbane") gives Skyrim-Main-Quest-Dragonbane.
C5_BranchNameSanitized ==
    nmDone =>
        /\ \A i \in 1..Len(nmResult) : nmResult[i] \in AllowedChars
        /\ Len(nmResult) <= MaxBranchNameLen
        /\ (nmGame = Skyrim /\ nmSave = MainQuestDragonbane)
              => nmResult = SkyrimMainQuestDragonbane

====
